---- MODULE Spec2Model ----
(***************************************************************************)
(* TfL journey expense calculator: the extraction core of                  *)
(* src/services/geminiService.ts (heuristic parser, validator, reconciler, *)
(* chunk orchestration) and the multi-file driver processExpenses          *)
(* (src/improvements.md).                                                  *)
(*                                                                         *)
(* Text is modelled as sequences of one-character strings, so that the     *)
(* regular expressions of the source are computed on the characters.       *)
(* A JavaScript number is a record [k, neg, mag]: k = "fin" with mag the   *)
(* magnitude in thousandths of a pound, or k = "inf"; neg is the IEEE sign *)
(* bit, so that -0 ([k |-> "fin", neg |-> TRUE, mag |-> 0]) is a value.    *)
(***************************************************************************)
EXTENDS Integers, Sequences, FiniteSets, TLC

VARIABLES
    \* mergeEntriesByMaxCount applied to two entry arrays
    a, b, result, mPc,
    \* parseJourneysHeuristically: the line loop
    lines, lineIdx, currentDate, out, outLine,
    \* the validation loop over parsedJson.expenses
    expenses, validEntries, vPc,
    \* chunk extraction of one PDF (extractTravelDataFromFile, lines 588-632)
    numPages, chunks, chunkState, batchStart, chunkResults, progressLog,
    completionLog, cPc,
    \* processExpenses over several files
    fileOutcome, fileState, fileResults, batchIdx, hasError, errorMessage,
    progress, summary, error, fPc,
    \* result assembly of one PDF (extractTravelDataFromFile, lines 634-663)
    responses, rawTextForFallback, docChunkResults, mergedEntries, foldIdx, dPc,
    \* the single-document path of extractTravelDataFromFile (lines 664-782)
    sResponse, sRawText, sValid, sFinal, sOutcome, sPc,
    \* parseCsvToTravelEntries: the row loop
    csvText, csvRow, csvOut, csvOutRow, csvPc,
    \* mergeEntriesByMaxCount folded over a list of passes
    passList, folded, rPc,
    \* the page texts of one PDF (extractTravelDataFromFile, line 586)
    pageTexts,
    \* the rate limiter of the proxy (src/server/index.js)
    now, requestCounts, passedOn, answer,
    \* rebuildPageTextWithLineBreaks: the item loop
    items, itemIdx, pageLines, lineOfItem, outText, lPc,
    \* the FileUpload component (src/components/Calendar.tsx)
    selectedFiles, fileLimitError, isDragging, uploadEvent,
    onFilesSelectedArg, onFilesSelectedCalls, uploadSteps,
    \* the report of processExpenses (src/improvements.md, lines 254-296)
    allTravelEntries, selectedDates, filteredEntries, dailyTotals,
    monthlySummaries, report, repPc

mergeVars == <<a, b, result, mPc>>
heurVars == <<lines, lineIdx, currentDate, out, outLine>>
validVars == <<expenses, validEntries, vPc>>
chunkVars == <<numPages, chunks, chunkState, batchStart, chunkResults,
               progressLog, completionLog, cPc>>
fileVars == <<fileOutcome, fileState, fileResults, batchIdx, hasError,
              errorMessage, progress, summary, error, fPc>>
docVars == <<responses, rawTextForFallback, docChunkResults, mergedEntries,
             foldIdx, dPc>>
singleVars == <<sResponse, sRawText, sValid, sFinal, sOutcome, sPc>>
csvVars == <<csvText, csvRow, csvOut, csvOutRow, csvPc>>
reduceVars == <<passList, folded, rPc>>
pagesVars == <<pageTexts>>
rateVars == <<now, requestCounts, passedOn, answer>>
layoutVars == <<items, itemIdx, pageLines, lineOfItem, outText, lPc>>
uploadVars == <<selectedFiles, fileLimitError, isDragging, uploadEvent,
    onFilesSelectedArg, onFilesSelectedCalls, uploadSteps>>
reportVars == <<allTravelEntries, selectedDates, filteredEntries, dailyTotals,
    monthlySummaries, report, repPc>>
vars == <<mergeVars, heurVars, validVars, chunkVars, fileVars, docVars, singleVars, csvVars, reduceVars, pagesVars, rateVars, layoutVars, uploadVars, reportVars>>
exceptMerge == <<heurVars, validVars, chunkVars, fileVars, docVars, singleVars, csvVars, reduceVars, pagesVars, rateVars, layoutVars, uploadVars, reportVars>>
exceptHeur == <<mergeVars, validVars, chunkVars, fileVars, docVars, singleVars, csvVars, reduceVars, pagesVars, rateVars, layoutVars, uploadVars, reportVars>>
exceptValid == <<mergeVars, heurVars, chunkVars, fileVars, docVars, singleVars, csvVars, reduceVars, pagesVars, rateVars, layoutVars, uploadVars, reportVars>>
exceptChunk == <<mergeVars, heurVars, validVars, fileVars, docVars, singleVars, csvVars, reduceVars, pagesVars, rateVars, layoutVars, uploadVars, reportVars>>
exceptFile == <<mergeVars, heurVars, validVars, chunkVars, docVars, singleVars, csvVars, reduceVars, pagesVars, rateVars, layoutVars, uploadVars, reportVars>>
exceptDoc == <<mergeVars, heurVars, validVars, chunkVars, fileVars, singleVars, csvVars, reduceVars, pagesVars, rateVars, layoutVars, uploadVars, reportVars>>
exceptSingle == <<mergeVars, heurVars, validVars, chunkVars, fileVars, docVars, csvVars, reduceVars, pagesVars, rateVars, layoutVars, uploadVars, reportVars>>
exceptCsv == <<mergeVars, heurVars, validVars, chunkVars, fileVars, docVars, singleVars, reduceVars, pagesVars, rateVars, layoutVars, uploadVars, reportVars>>
exceptReduce == <<mergeVars, heurVars, validVars, chunkVars, fileVars, docVars, singleVars, csvVars, pagesVars, rateVars, layoutVars, uploadVars, reportVars>>
exceptPages == <<mergeVars, heurVars, validVars, chunkVars, fileVars, docVars, singleVars, csvVars, reduceVars, rateVars, layoutVars, uploadVars, reportVars>>
exceptRate == <<mergeVars, heurVars, validVars, chunkVars, fileVars, docVars, singleVars, csvVars, reduceVars, pagesVars, layoutVars, uploadVars, reportVars>>
exceptLayout == <<mergeVars, heurVars, validVars, chunkVars, fileVars, docVars, singleVars, csvVars, reduceVars, pagesVars, rateVars, uploadVars, reportVars>>
exceptUpload == <<mergeVars, heurVars, validVars, chunkVars, fileVars, docVars, singleVars, csvVars, reduceVars, pagesVars, rateVars, layoutVars, reportVars>>
exceptReport == <<mergeVars, heurVars, validVars, chunkVars, fileVars, docVars, singleVars, csvVars, reduceVars, pagesVars, rateVars, layoutVars, uploadVars>>

(***************************************************************************)
(* Bounds of the model.                                                    *)
(***************************************************************************)
MaxEntries == 2
MaxLines == 3
MaxItems == 2
MaxPages == 9
MaxFiles == 4
MaxChunks == 2
MaxRows == 3

Max(x, y) == IF x >= y THEN x ELSE y
Min(x, y) == IF x <= y THEN x ELSE y

\* Sequences over S of length at most n.
SeqUpTo(S, n) == UNION {[1..k -> S] : k \in 0..n}

(***************************************************************************)
(* Characters.                                                             *)
(***************************************************************************)
PoundSign == "GBP"  \* the single character U+00A3
Digits == {"0", "1", "2", "3", "4", "5", "6", "7", "8", "9"}
IsDigit(c) == c \in Digits
DigitVal(c) ==
    CASE c = "0" -> 0 [] c = "1" -> 1 [] c = "2" -> 2 [] c = "3" -> 3
      [] c = "4" -> 4 [] c = "5" -> 5 [] c = "6" -> 6 [] c = "7" -> 7
      [] c = "8" -> 8 [] c = "9" -> 9
DigitChar(n) ==
    CASE n = 0 -> "0" [] n = 1 -> "1" [] n = 2 -> "2" [] n = 3 -> "3"
      [] n = 4 -> "4" [] n = 5 -> "5" [] n = 6 -> "6" [] n = 7 -> "7"
      [] n = 8 -> "8" [] n = 9 -> "9"
UpperLetters ==
    {"A", "B", "C", "D", "E", "F", "G", "H", "I", "J", "K", "L",
     "M", "N", "O", "P", "Q", "R", "S", "T", "U", "V", "W", "X",
     "Y", "Z"}
LowerLetters == {"a", "b", "c", "d", "e", "f", "g", "h", "i", "j", "k", "l",
                 "m", "n", "o", "p", "q", "r", "s", "t", "u", "v", "w", "x",
                 "y", "z"}
\* String.prototype.toLowerCase / the i flag, on the letters the model uses
ToLower(c) ==
    CASE c = "A" -> "a" [] c = "B" -> "b" [] c = "C" -> "c"
      [] c = "D" -> "d" [] c = "E" -> "e" [] c = "F" -> "f"
      [] c = "G" -> "g" [] c = "H" -> "h" [] c = "I" -> "i"
      [] c = "J" -> "j" [] c = "K" -> "k" [] c = "L" -> "l"
      [] c = "M" -> "m" [] c = "N" -> "n" [] c = "O" -> "o"
      [] c = "P" -> "p" [] c = "Q" -> "q" [] c = "R" -> "r"
      [] c = "S" -> "s" [] c = "T" -> "t" [] c = "U" -> "u"
      [] c = "V" -> "v" [] c = "W" -> "w" [] c = "X" -> "x"
      [] c = "Y" -> "y" [] c = "Z" -> "z" [] OTHER -> c
\* \w
WordChars == Digits \cup UpperLetters \cup LowerLetters \cup {"_"}
IsWordChar(c) == c \in WordChars
\* \s
Spaces == {" ", "\t"}
IsSpace(c) == c \in Spaces

SubStr(s, i, n) == [k \in 1..n |-> s[i + k - 1]]
AllDigits(s) == \A k \in 1..Len(s) : IsDigit(s[k])
LowerStr(s) == [k \in 1..Len(s) |-> ToLower(s[k])]
\* s has the literal text t at position i
HasAt(s, i, t) ==
    /\ i >= 1
    /\ i + Len(t) - 1 <= Len(s)
    /\ \A k \in 1..Len(t) : s[i + k - 1] = t[k]
\* parseInt(s, 10) of a digit string
ParseInt(s) ==
    LET F[k \in 0..Len(s)] ==
            IF k = 0 THEN 0 ELSE 10 * F[k - 1] + DigitVal(s[k])
    IN  F[Len(s)]
\* String(n) of a natural number below 100
NatToStr(n) ==
    IF n < 10 THEN <<DigitChar(n)>>
    ELSE <<DigitChar(n \div 10), DigitChar(n % 10)>>
\* s.padStart(2, "0")
PadStart2(s) ==
    IF Len(s) >= 2 THEN s ELSE IF Len(s) = 1 THEN <<"0">> \o s ELSE <<"0", "0">>

(***************************************************************************)
(* Numbers.                                                                *)
(***************************************************************************)
Num(neg, mag) == [k |-> "fin", neg |-> neg, mag |-> mag]
Infinity == [k |-> "inf", neg |-> FALSE, mag |-> 0]
\* x > 0
IsPositive(x) == ~x.neg /\ (x.k = "inf" \/ x.mag > 0)
\* Number.isFinite
IsFinite(x) == x.k = "fin"

\* Number.prototype.toFixed(2): the string "[-]d.dd" is the record
\* [inf, neg, cents]; the sign is printed when x < 0, which -0 is not, and
\* the digits are those of the nearest hundredth.  (Ties of the decimal
\* value are rounded up here; the amounts of the model avoid ties, whose
\* rounding in the source depends on the binary value.)
toFixed2(x) ==
    IF x.k = "inf"
    THEN [inf |-> TRUE, neg |-> x.neg, cents |-> 0]
    ELSE [inf |-> FALSE, neg |-> x.neg /\ x.mag > 0, cents |-> (x.mag + 5) \div 10]

\* parseFloat of a string produced by toFixed(2): "-0.00" parses to -0
parseFloatFixed(s) ==
    IF s.inf THEN [k |-> "inf", neg |-> s.neg, mag |-> 0]
    ELSE [k |-> "fin", neg |-> s.neg, mag |-> s.cents * 10]

(***************************************************************************)
(* TravelEntry { date: string; amount: number }                            *)
(***************************************************************************)
TravelEntry(date, amount) == [date |-> date, amount |-> amount]

D14 == <<"2", "0", "2", "5", "-", "1", "0", "-", "1", "4">>
D15 == <<"2", "0", "2", "5", "-", "1", "0", "-", "1", "5">>

(***************************************************************************)
(* mergeEntriesByMaxCount                                                  *)
(***************************************************************************)
\* key(e): `${e.date}|${e.amount.toFixed(2)}`, as the pair of its two parts
key(e) == <<e.date, toFixed2(e.amount)>>

\* count(arr).get(k) || 0
count(arr, k) == Cardinality({i \in 1..Len(arr) : key(arr[i]) = k})

\* the insertion order of new Set([...ca.keys(), ...cb.keys()]): the keys of
\* x then y, each at its first occurrence
firstOccurrences(arr) ==
    {i \in 1..Len(arr) : \A j \in 1..(i - 1) : key(arr[j]) # key(arr[i])}
keysInOrder(arr, first) ==
    [k \in 1..Cardinality(first) |->
        key(arr[CHOOSE i \in first : Cardinality({j \in first : j < i}) = k - 1])]
keysOf(arr) == keysInOrder(arr, firstOccurrences(arr))
mergeKeys(x, y) == keysOf(x \o y)

Repeat(e, n) == [i \in 1..n |-> e]

\* variant: the counts of the two arrays added
sumCount(x, y, k) == count(x, k) + count(y, k)

\* line 277: n = Math.max(ca.get(k) || 0, cb.get(k) || 0)
maxCount(x, y, k) == Max(count(x, k), count(y, k))

\* lines 275-285: the loop over the keys
pushMaxCounts(x, y, keys) ==
    LET G[i \in 0..Len(keys)] ==
            IF i = 0 THEN <<>>
            ELSE G[i - 1] \o
                 Repeat(TravelEntry(keys[i][1], parseFloatFixed(keys[i][2])),
                        maxCount(x, y, keys[i]))
    IN  G[Len(keys)]
mergeEntriesByMaxCount(x, y) == pushMaxCounts(x, y, mergeKeys(x, y))

\* The entries the merge specification draws its arrays from: amounts 2.80,
\* 2.804, 1.70 and the sub-penny amounts 0.001 and -0.001.
MergePool ==
    {TravelEntry(D14, Num(FALSE, 2800)), TravelEntry(D14, Num(FALSE, 2804)),
     TravelEntry(D14, Num(FALSE, 1)), TravelEntry(D14, Num(TRUE, 1)),
     TravelEntry(D15, Num(FALSE, 2800)), TravelEntry(D15, Num(FALSE, 1700))}

MergeIdle == a = <<>> /\ b = <<>> /\ result = <<>> /\ mPc = "idle"

MergeInit ==
    /\ a \in SeqUpTo(MergePool, MaxEntries)
    /\ b \in SeqUpTo(MergePool, MaxEntries)
    /\ result = <<>>
    /\ mPc = "start"

Merge ==
    /\ mPc = "start"
    /\ result' = mergeEntriesByMaxCount(a, b)
    /\ mPc' = "done"
    /\ UNCHANGED <<a, b>>
    /\ UNCHANGED exceptMerge

(***************************************************************************)
(* parseJourneysHeuristically                                              *)
(***************************************************************************)
\* end of the maximal run of characters of the class Cls that starts at i
\* (i - 1 when the run is empty)
RunEnd(s, i, Cls) ==
    LET G[k \in i..(Len(s) + 1)] ==
            IF k <= Len(s) /\ s[k] \in Cls THEN G[k + 1] ELSE k - 1
    IN  IF i < 1 \/ i > Len(s) THEN i - 1 ELSE G[i]

\* String.prototype.trim
Slice(s, lo, hi) == IF hi < lo THEN <<>> ELSE SubStr(s, lo, hi - lo + 1)
LastNonSpace(s) ==
    LET H[k \in 0..Len(s)] ==
            IF k = 0 THEN 0 ELSE IF ~IsSpace(s[k]) THEN k ELSE H[k - 1]
    IN  H[Len(s)]
Trim(s) == Slice(s, RunEnd(s, 1, Spaces) + 1, LastNonSpace(s))

\* s.replace(/\s+/g, " ")
CollapseSpaces(s) ==
    LET F[i \in 0..Len(s)] ==
            IF i = 0 THEN <<>>
            ELSE IF IsSpace(s[i])
                 THEN IF i > 1 /\ IsSpace(s[i - 1]) THEN F[i - 1]
                      ELSE Append(F[i - 1], " ")
                 ELSE Append(F[i - 1], s[i])
    IN  F[Len(s)]

\* text.split(/\r?\n/).map((l) => l.trim()).filter(Boolean), on the split text
splitLines(raw) ==
    LET F[i \in 0..Len(raw)] ==
            IF i = 0 THEN <<>>
            ELSE IF Trim(raw[i]) = <<>> THEN F[i - 1]
                 ELSE Append(F[i - 1], Trim(raw[i]))
    IN  F[Len(raw)]

\* raw.replace(/\s+/g, " ").trim()
normLine(raw) == Trim(CollapseSpaces(raw))

MonthNames ==
    <<<<"j", "a", "n">>, <<"f", "e", "b">>, <<"m", "a", "r">>,
      <<"a", "p", "r">>, <<"m", "a", "y">>, <<"j", "u", "n">>,
      <<"j", "u", "l">>, <<"a", "u", "g">>, <<"s", "e", "p">>,
      <<"o", "c", "t">>, <<"n", "o", "v">>, <<"d", "e", "c">>>>
\* monthMap[m.slice(0, 3).toLowerCase()]
monthMap(m) ==
    CHOOSE n \in 1..12 : MonthNames[n] = LowerStr(SubStr(m, 1, 3))
WeekdayNames ==
    {<<"m", "o", "n">>, <<"t", "u", "e">>, <<"w", "e", "d">>,
     <<"t", "h", "u">>, <<"f", "r", "i">>, <<"s", "a", "t">>,
     <<"s", "u", "n">>}
IsMonthAt(s, i) ==
    /\ i >= 1
    /\ i + 2 <= Len(s)
    /\ \E n \in 1..12 : MonthNames[n] = LowerStr(SubStr(s, i, 3))
IsWeekdayAt(s, i) ==
    /\ i >= 1
    /\ i + 2 <= Len(s)
    /\ LowerStr(SubStr(s, i, 3)) \in WeekdayNames
DigitsAt(s, i, n) ==
    /\ i >= 1
    /\ i + n - 1 <= Len(s)
    /\ AllDigits(SubStr(s, i, n))

\* new Date().getFullYear(), as a string
CurrentYear == <<"2", "0", "2", "6">>

\* toISO(y, m, d) with m a month number
toISO(y, mm, d) == y \o <<"-">> \o PadStart2(NatToStr(mm)) \o <<"-">> \o PadStart2(d)

\* datePatterns[0] = /(\d{4})-(\d{2})-(\d{2})/ : the groups of the leftmost
\* match as <<m1, m2, m3>>, or <<>> for null
matchPattern0(s) ==
    LET Scan[i \in 1..(Len(s) + 1)] ==
            IF i > Len(s) THEN <<>>
            ELSE IF /\ DigitsAt(s, i, 4) /\ HasAt(s, i + 4, <<"-">>)
                    /\ DigitsAt(s, i + 5, 2) /\ HasAt(s, i + 7, <<"-">>)
                    /\ DigitsAt(s, i + 8, 2)
                 THEN <<SubStr(s, i, 4), SubStr(s, i + 5, 2), SubStr(s, i + 8, 2)>>
                 ELSE Scan[i + 1]
    IN  Scan[1]

\* the rest of datePatterns[1] after the day: \s+(Mon)\w*\s+(\d{4}) at p;
\* every quantifier can only take its maximal run, since the character
\* that must follow a run is not of the run's class
monthYearGroups(s, p, q, r, t) ==
    IF q > p /\ IsMonthAt(s, q) /\ t > r /\ DigitsAt(s, t, 4)
    THEN <<SubStr(s, q, 3), SubStr(s, t, 4)>>
    ELSE <<>>
\* q: after \s+ ; r: after (Mon)\w* ; t: after the second \s+
monthYearFromWordEnd(s, p, q, r) ==
    monthYearGroups(s, p, q, r, RunEnd(s, r, Spaces) + 1)
monthYearFromMonth(s, p, q) ==
    monthYearFromWordEnd(s, p, q, RunEnd(s, q + 3, WordChars) + 1)
monthYearAt(s, p) == monthYearFromMonth(s, p, RunEnd(s, p, Spaces) + 1)

\* datePatterns[1] = /(\d{1,2})\s+(Jan|...|Dec)\w*\s+(\d{4})/i : the groups
\* <<m1, m2, m3>> of the leftmost match (\d{1,2} is greedy), or <<>>
matchPattern1(s) ==
    LET Scan[i \in 1..(Len(s) + 1)] ==
            IF i > Len(s) THEN <<>>
            ELSE IF DigitsAt(s, i, 2) /\ monthYearAt(s, i + 2) # <<>>
                 THEN <<SubStr(s, i, 2)>> \o monthYearAt(s, i + 2)
            ELSE IF DigitsAt(s, i, 1) /\ monthYearAt(s, i + 1) # <<>>
                 THEN <<SubStr(s, i, 1)>> \o monthYearAt(s, i + 1)
            ELSE Scan[i + 1]
    IN  Scan[1]

\* the rest of datePatterns[2] after the day: \s+(Mon)\w*(?:\s+(\d{4}))? at p;
\* <<month, year>> with year <<>> when the optional group did not take part
monthOptYearGroups(s, p, q, r, t) ==
    IF q > p /\ IsMonthAt(s, q)
    THEN <<SubStr(s, q, 3),
           IF t > r /\ DigitsAt(s, t, 4) THEN SubStr(s, t, 4) ELSE <<>>>>
    ELSE <<>>
monthOptYearFromWordEnd(s, p, q, r) ==
    monthOptYearGroups(s, p, q, r, RunEnd(s, r, Spaces) + 1)
monthOptYearFromMonth(s, p, q) ==
    monthOptYearFromWordEnd(s, p, q, RunEnd(s, q + 3, WordChars) + 1)
monthOptYearAt(s, p) == monthOptYearFromMonth(s, p, RunEnd(s, p, Spaces) + 1)

\* the rest of datePatterns[2] after the weekday: \s+(\d{1,2}) and the month
\* part, at p; <<day, month, year>> or <<>>
dayMonthFromDay(s, p, d) ==
    IF d = p THEN <<>>
    ELSE IF DigitsAt(s, d, 2) /\ monthOptYearAt(s, d + 2) # <<>>
         THEN <<SubStr(s, d, 2)>> \o monthOptYearAt(s, d + 2)
    ELSE IF DigitsAt(s, d, 1) /\ monthOptYearAt(s, d + 1) # <<>>
         THEN <<SubStr(s, d, 1)>> \o monthOptYearAt(s, d + 1)
    ELSE <<>>
dayMonthAt(s, p) == dayMonthFromDay(s, p, RunEnd(s, p, Spaces) + 1)

\* datePatterns[2] =
\* /(Mon|...|Sun)\s+(\d{1,2})\s+(Jan|...|Dec)\w*(?:\s+(\d{4}))?/i : the groups
\* <<m2, m3, m4>> of the leftmost match, or <<>>
matchPattern2(s) ==
    LET Scan[i \in 1..(Len(s) + 1)] ==
            IF i > Len(s) THEN <<>>
            ELSE IF IsWeekdayAt(s, i) /\ dayMonthAt(s, i + 3) # <<>>
                 THEN dayMonthAt(s, i + 3)
                 ELSE Scan[i + 1]
    IN  Scan[1]

\* the date header of a line (lines 215-231): patterns in priority order,
\* the ISO date of the first that matches, or <<>> (null)
isoOfMatches(m0, m1, m2) ==
    IF m0 # <<>> THEN toISO(m0[1], ParseInt(m0[2]), m0[3])
    ELSE IF m1 # <<>> THEN toISO(m1[3], monthMap(m1[2]), m1[1])
    ELSE IF m2 # <<>>
         THEN toISO(IF m2[3] # <<>> THEN m2[3] ELSE CurrentYear,
                    monthMap(m2[2]), m2[1])
         ELSE <<>>
detectDateHeader(line) ==
    isoOfMatches(matchPattern0(line), matchPattern1(line), matchPattern2(line))

\* variant: a header is taken only while no date is set
keepFirstDate(cur, matched) == IF cur # <<>> THEN cur ELSE matched

\* if (matched) currentDate = matched;
nextCurrentDate(cur, matched) == IF matched # <<>> THEN matched ELSE cur

\* the literals of the exclusion pattern
KwCap == <<"c", "a", "p">>
KwCapped == <<"c", "a", "p", "p", "e", "d">>
KwDailyCap == <<"d", "a", "i", "l", "y", " ", "c", "a", "p">>
KwWeeklyCap == <<"w", "e", "e", "k", "l", "y", " ", "c", "a", "p">>
KwTotal == <<"t", "o", "t", "a", "l">>
KwPayment == <<"p", "a", "y", "m", "e", "n", "t">>
KwAuto == <<"a", "u", "t", "o">>
KwTop == <<"t", "o", "p">>
KwUp == <<"u", "p">>
KwTopup == <<"t", "o", "p", "u", "p">>
KwRefund == <<"r", "e", "f", "u", "n", "d">>
KwCredit == <<"c", "r", "e", "d", "i", "t">>
KwAdjustment == <<"a", "d", "j", "u", "s", "t", "m", "e", "n", "t">>

Contains(s, t) == \E i \in 1..Len(s) : HasAt(s, i, t)

\* auto\s*top\s*up somewhere in s
ContainsAutoTopUp(s) ==
    \E i \in 1..Len(s) :
        /\ HasAt(s, i, KwAuto)
        /\ \E p \in {RunEnd(s, i + 4, Spaces) + 1} :
               /\ HasAt(s, p, KwTop)
               /\ HasAt(s, RunEnd(s, p + 3, Spaces) + 1, KwUp)

\* auto\s*topup somewhere in s
ContainsAutoTopup(s) ==
    \E i \in 1..Len(s) :
        /\ HasAt(s, i, KwAuto)
        /\ HasAt(s, RunEnd(s, i + 4, Spaces) + 1, KwTopup)

\* /cap|capped|daily cap|weekly cap|total|payment|auto\s*top\s*up|
\*  auto\s*topup|refund|credit|adjustment/i.test(line)
hasExclusionKeyword(s) ==
    \/ Contains(s, KwCap) \/ Contains(s, KwCapped)
    \/ Contains(s, KwDailyCap) \/ Contains(s, KwWeeklyCap)
    \/ Contains(s, KwTotal) \/ Contains(s, KwPayment)
    \/ ContainsAutoTopUp(s) \/ ContainsAutoTopup(s)
    \/ Contains(s, KwRefund) \/ Contains(s, KwCredit)
    \/ Contains(s, KwAdjustment)
\* variant: the exclusion pattern without its i flag
isExcludedCaseSensitive(line) == hasExclusionKeyword(line)

isExcluded(line) == hasExclusionKeyword(LowerStr(line))

\* the amount pattern at a digit run that starts at i and ends at e
amountAt(s, i, e) ==
    IF /\ HasAt(s, e + 1, <<".">>)
       /\ DigitsAt(s, e + 2, 2)
       /\ (e + 3 = Len(s) \/ ~IsWordChar(s[e + 4]))
    THEN <<SubStr(s, i, e - i + 1), SubStr(s, e + 2, 2)>>
    ELSE <<>>

\* line.match(/(pound)?\s*(\d+\.\d{2})\b/): group 1 of the leftmost match as
\* <<integer digits, decimal digits>>, or <<>> for null.  The group starts
\* at the start of a digit run: a run that is not followed by "." and two
\* digits and a word boundary matches from none of its positions.
matchAmount(s) ==
    LET Scan[i \in 1..(Len(s) + 1)] ==
            IF i > Len(s) THEN <<>>
            ELSE IF /\ IsDigit(s[i])
                    /\ (i = 1 \/ ~IsDigit(s[i - 1]))
                    /\ amountAt(s, i, RunEnd(s, i, Digits)) # <<>>
                 THEN amountAt(s, i, RunEnd(s, i, Digits))
                 ELSE Scan[i + 1]
    IN  Scan[1]

\* parseFloat(amt[1]) of "d+.dd"
parseFloatAmount(m) == Num(FALSE, ParseInt(m[1]) * 1000 + ParseInt(m[2]) * 10)

\* variant: the amount check without `&& currentDate`
entryOfAnyDate(amt, cur) ==
    IF amt # <<>> /\ IsPositive(parseFloatAmount(amt))
    THEN <<TravelEntry(cur, parseFloatAmount(amt))>>
    ELSE <<>>
journeyOfAnyDate(line, cur) == entryOfAnyDate(matchAmount(line), cur)

\* lines 245-249: the entries the line adds to out, given the current date
\* after the header detection: <<>> or one entry
entryOf(amt, cur) ==
    IF amt # <<>> /\ cur # <<>> /\ IsPositive(parseFloatAmount(amt))
    THEN <<TravelEntry(cur, parseFloatAmount(amt))>>
    ELSE <<>>
journeyOf(line, cur) == entryOf(matchAmount(line), cur)

\* The raw lines of the texts the heuristic parser is run on.
\* "2025-10-14"
LineIso14 ==
    <<"2", "0", "2", "5", "-", "1", "0", "-", "1", "4">>
\* "2025-10-15"
LineIso15 ==
    <<"2", "0", "2", "5", "-", "1", "0", "-", "1", "5">>
\* "15 Oct 2025 (pound)1.70"
LineOct15Fare ==
    <<"1", "5", " ", "O", "c", "t", " ", "2", "0", "2", "5", " ",
      PoundSign, "1", ".", "7", "0">>
\* "Tue 14 Oct"
LineTue14 ==
    <<"T", "u", "e", " ", "1", "4", " ", "O", "c", "t">>
\* "(pound)2.80"
LineFare280 ==
    <<PoundSign, "2", ".", "8", "0">>
\* "(pound)1.70"
LineFare170 ==
    <<PoundSign, "1", ".", "7", "0">>
\* "  Bus   1.70 "
LineBusFare ==
    <<" ", " ", "B", "u", "s", " ", " ", " ", "1", ".", "7", "0",
      " ">>
\* "(pound)0.00"
LineZero ==
    <<PoundSign, "0", ".", "0", "0">>
\* "  "
LineBlank ==
    <<" ", " ">>
\* "Daily cap (pound)8.00"
LineDailyCap ==
    <<"D", "a", "i", "l", "y", " ", "c", "a", "p", " ", PoundSign,
      "8", ".", "0", "0">>
\* "2025-10-15 Refund (pound)2.80"
LineIso15Refund ==
    <<"2", "0", "2", "5", "-", "1", "0", "-", "1", "5", " ", "R",
      "e", "f", "u", "n", "d", " ", PoundSign, "2", ".", "8", "0">>
\* "Auto top up (pound)20.00"
LineAutoTopUp ==
    <<"A", "u", "t", "o", " ", "t", "o", "p", " ", "u", "p", " ",
      PoundSign, "2", "0", ".", "0", "0">>
\* "TOTAL 4.50"
LineTotal ==
    <<"T", "O", "T", "A", "L", " ", "4", ".", "5", "0">>
\* "Payment 9.99"
LinePayment ==
    <<"P", "a", "y", "m", "e", "n", "t", " ", "9", ".", "9", "9">>
\* "credit 1.00"
LineCredit ==
    <<"c", "r", "e", "d", "i", "t", " ", "1", ".", "0", "0">>
\* "Adjustment 2.00"
LineAdjustment ==
    <<"A", "d", "j", "u", "s", "t", "m", "e", "n", "t", " ", "2",
      ".", "0", "0">>

LinePool ==
    {LineIso14, LineOct15Fare, LineTue14, LineFare280, LineBusFare, LineZero,
     LineBlank, LineDailyCap, LineIso15Refund, LineAutoTopUp}

\* "2025-10-14\n(pound)2.80\n(pound)1.70\n2025-10-15\n(pound)2.80"
ExampleText == <<LineIso14, LineFare280, LineFare170, LineIso15, LineFare280>>

HeurIdle ==
    /\ lines = <<>> /\ lineIdx = 0 /\ currentDate = <<>>
    /\ out = <<>> /\ outLine = <<>>

\* lines: the text, split at line ends; lineIdx: the lines of
\* splitLines(lines) the loop has done; outLine[k]: the line that emitted
\* out[k] (history)
HeurInit ==
    /\ lines \in SeqUpTo(LinePool, MaxLines) \cup {ExampleText}
    /\ lineIdx = 0
    /\ currentDate = <<>>
    /\ out = <<>>
    /\ outLine = <<>>

\* lines 236-249 for a line, cur the current date after lines 215-233: the
\* date and the entries pushed
journeysOfLine(line, cur) ==
    [cur |-> cur, new |-> IF isExcluded(line) THEN <<>> ELSE journeyOf(line, cur)]
\* variant: a line with a date header only sets the date (a `continue`
\* after line 233)
headerThenContinue(cur, line) ==
    IF detectDateHeader(line) # <<>>
    THEN [cur |-> detectDateHeader(line), new |-> <<>>]
    ELSE journeysOfLine(line, cur)

\* lines 215-249 for the normalised line
headerAndJourneys(cur, line) ==
    journeysOfLine(line, nextCurrentDate(cur, detectDateHeader(line)))
\* the body of the loop (lines 213-249) for a raw line, cur the current date
loopBody(cur, raw) == headerAndJourneys(cur, normLine(raw))

\* one iteration of the loop `for (const raw of lines)`
HeurStep ==
    /\ lineIdx < Len(splitLines(lines))
    /\ \E r \in {loopBody(currentDate, splitLines(lines)[lineIdx + 1])} :
           /\ currentDate' = r.cur
           /\ out' = out \o r.new
           /\ outLine' = outLine \o [k \in 1..Len(r.new) |-> lineIdx + 1]
    /\ lineIdx' = lineIdx + 1
    /\ UNCHANGED lines
    /\ UNCHANGED exceptHeur

\* parseJourneysHeuristically(text), as a function
pushJourneys(prev, r) == [cur |-> r.cur, out |-> prev.out \o r.new]
loopStep(prev, raw) == pushJourneys(prev, loopBody(prev.cur, raw))
loopOver(ls) ==
    LET F[i \in 0..Len(ls)] ==
            IF i = 0 THEN [cur |-> <<>>, out |-> <<>>]
            ELSE loopStep(F[i - 1], ls[i])
    IN  F[Len(ls)].out
parseJourneysHeuristically(raw) == loopOver(splitLines(raw))

(***************************************************************************)
(* Validation of parsedJson.expenses (processPdfChunk, lines 476-491, and  *)
(* the same loop of the single-document path, lines 732-744).              *)
(*                                                                         *)
(* A JSON value is [t, s, n]: t its type, s its characters when a string,  *)
(* n its value when a number.  JSON.parse yields no NaN; a literal such as *)
(* 1e999 yields Infinity.  An element of expenses is [obj, date, amount],  *)
(* obj FALSE for a null element.                                           *)
(***************************************************************************)
JsonString(s) == [t |-> "string", s |-> s, n |-> Num(FALSE, 0)]
JsonNumber(n) == [t |-> "number", s |-> <<>>, n |-> n]
JsonNull == [t |-> "null", s |-> <<>>, n |-> Num(FALSE, 0)]
JsonItem(date, amount) == [obj |-> TRUE, date |-> date, amount |-> amount]
NullItem == [obj |-> FALSE, date |-> JsonNull, amount |-> JsonNull]

\* isNaN(x)
isNaN(x) == x.k = "nan"

\* /^\d{4}-\d{2}-\d{2}$/.test(s)
testIsoDate(s) ==
    /\ Len(s) = 10
    /\ DigitsAt(s, 1, 4) /\ s[5] = "-"
    /\ DigitsAt(s, 6, 2) /\ s[8] = "-"
    /\ DigitsAt(s, 9, 2)

\* the condition under which the loop pushes an element
isValidItem(item) ==
    /\ item.obj
    /\ item.date.t = "string"
    /\ item.amount.t = "number"
    /\ ~isNaN(item.amount.n)
    /\ testIsoDate(item.date.s)

\* the loop: validEntries, in the order of the elements
validate(exp) ==
    LET F[i \in 0..Len(exp)] ==
            IF i = 0 THEN <<>>
            ELSE IF isValidItem(exp[i])
                 THEN Append(F[i - 1], TravelEntry(exp[i].date.s, exp[i].amount.n))
                 ELSE F[i - 1]
    IN  F[Len(exp)]

\* "14-10-2025"
DmyDate == <<"1", "4", "-", "1", "0", "-", "2", "0", "2", "5">>

ItemDates == {JsonString(D14), JsonString(D15), JsonString(DmyDate), JsonNull}
\* 2.8, -2.8, 0, 1e999, "x"
ItemAmounts ==
    {JsonNumber(Num(FALSE, 2800)), JsonNumber(Num(TRUE, 2800)),
     JsonNumber(Num(FALSE, 0)), JsonNumber(Infinity),
     JsonString(<<"x">>)}
ItemPool == {JsonItem(d, x) : d \in ItemDates, x \in ItemAmounts} \cup {NullItem}

ValidIdle == expenses = <<>> /\ validEntries = <<>> /\ vPc = "idle"

ValidInit ==
    /\ expenses \in SeqUpTo(ItemPool, MaxItems)
    /\ validEntries = <<>>
    /\ vPc = "start"

Validate ==
    /\ vPc = "start"
    /\ validEntries' = validate(expenses)
    /\ vPc' = "done"
    /\ UNCHANGED expenses
    /\ UNCHANGED exceptValid

(***************************************************************************)
(* Result assembly of a PDF (extractTravelDataFromFile, lines 634-663):    *)
(* the chunk results are folded with mergeEntriesByMaxCount, then the      *)
(* heuristic pass over the whole raw text is merged in.                    *)
(***************************************************************************)
\* the text of an AI response: not JSON, JSON without an expenses array, or
\* JSON with one
BadJson == [kind |-> "badjson", expenses |-> <<>>]
NoExpenses == [kind |-> "noexpenses", expenses |-> <<>>]
Expenses(exp) == [kind |-> "ok", expenses |-> exp]

\* processPdfChunk, lines 460-491: what the chunk returns for a response
processPdfChunk(response) ==
    IF response.kind = "badjson" THEN <<>>
    ELSE IF response.kind = "noexpenses" THEN <<>>
    ELSE validate(response.expenses)

Item280 == JsonItem(JsonString(D14), JsonNumber(Num(FALSE, 2800)))
ItemNeg280 == JsonItem(JsonString(D14), JsonNumber(Num(TRUE, 2800)))
ItemSubPenny == JsonItem(JsonString(D14), JsonNumber(Num(FALSE, 1)))
ItemNegSubPenny == JsonItem(JsonString(D14), JsonNumber(Num(TRUE, 1)))
ItemDmy == JsonItem(JsonString(DmyDate), JsonNumber(Num(FALSE, 2800)))
Item170On15 == JsonItem(JsonString(D15), JsonNumber(Num(FALSE, 1700)))

\* the responses a chunk call of the model can get
ResponsePool ==
    {BadJson, NoExpenses, Expenses(<<>>), Expenses(<<Item280>>),
     Expenses(<<Item280, Item280>>), Expenses(<<Item170On15, ItemDmy>>),
     Expenses(<<ItemNeg280>>), Expenses(<<ItemSubPenny>>),
     Expenses(<<ItemNegSubPenny>>)}

\* the raw texts of the model: none, and one whose journey line on the
\* second page inherits the header of the first page
TextPool == {<<>>, <<LineIso14, LineFare280, LineFare280>>, <<LineFare280>>}

DocIdle ==
    /\ responses = <<>> /\ rawTextForFallback = <<>> /\ docChunkResults = <<>>
    /\ mergedEntries = <<>> /\ foldIdx = 0 /\ dPc = "idle"

DocInit ==
    /\ responses \in UNION {[1..n -> ResponsePool] : n \in 1..MaxChunks}
    /\ rawTextForFallback \in TextPool
    /\ docChunkResults = <<>>
    /\ mergedEntries = <<>>
    /\ foldIdx = 0
    /\ dPc = "chunks"

\* lines 610-632 when no call throws: chunkResults holds every chunk's
\* return value, in chunk order
CollectChunkResults ==
    /\ dPc = "chunks"
    /\ docChunkResults' = [i \in 1..Len(responses) |-> processPdfChunk(responses[i])]
    /\ dPc' = "fold"
    /\ UNCHANGED <<responses, rawTextForFallback, mergedEntries, foldIdx>>
    /\ UNCHANGED exceptDoc

\* variant: every pass replaces the merged list
lastPassWins(merged, entries) == entries

\* `if (entries.length > 0) mergedEntries = mergeEntriesByMaxCount(...)`
\* (lines 636-642 and 652-654)
mergeIfAny(merged, entries) ==
    IF Len(entries) > 0 THEN mergeEntriesByMaxCount(merged, entries) ELSE merged

\* lines 646-651: the heuristic pass, run only when there is raw text
heuristicEntriesOf(raw) ==
    IF raw # <<>> THEN parseJourneysHeuristically(raw) ELSE <<>>

\* one iteration of `for (const chunkEntries of chunkResults)`
FoldChunk ==
    /\ dPc = "fold"
    /\ foldIdx < Len(docChunkResults)
    /\ mergedEntries' = mergeIfAny(mergedEntries, docChunkResults[foldIdx + 1])
    /\ foldIdx' = foldIdx + 1
    /\ UNCHANGED <<responses, rawTextForFallback, docChunkResults, dPc>>
    /\ UNCHANGED exceptDoc

\* lines 645-663: the heuristic fallback, and the return
ApplyHeuristic ==
    /\ dPc = "fold"
    /\ foldIdx = Len(docChunkResults)
    /\ mergedEntries' =
           mergeIfAny(mergedEntries, heuristicEntriesOf(rawTextForFallback))
    /\ dPc' = "done"
    /\ UNCHANGED <<responses, rawTextForFallback, docChunkResults, foldIdx>>
    /\ UNCHANGED exceptDoc

(***************************************************************************)
(* The single-document path (extractTravelDataFromFile, lines 664-782): an *)
(* image or a text file is sent in one call.  sRawText is                  *)
(* rawTextForFallback, empty for an image; sOutcome is how the call ends:  *)
(* "returned" with sFinal, or one of the three errors.                     *)
(***************************************************************************)
\* variant: a response without expenses counts as an empty array, as it
\* does for a chunk
parseOutcomeLenient(response) == "parsed"

\* lines 703-725: what becomes of the response text
parseOutcome(response) ==
    IF response.kind = "badjson" THEN "unexpected format"
    ELSE IF response.kind = "noexpenses" THEN "no valid expense data"
    ELSE "parsed"

\* lines 746-757: finalEntries
finalEntriesOf(valid, heuristic) ==
    IF Len(heuristic) > 0 THEN mergeEntriesByMaxCount(valid, heuristic) ELSE valid

\* variant: no error for an unusable array
neverNoneInCorrectFormat(final, exp) == FALSE

\* line 759
noneInCorrectFormat(final, exp) == Len(final) = 0 /\ Len(exp) > 0

ItemNullDate == JsonItem(JsonNull, JsonNumber(Num(FALSE, 2800)))
ItemTextAmount == JsonItem(JsonString(D15), JsonString(<<"x">>))

\* the responses and the raw texts of the single-document model
SingleResponsePool ==
    ResponsePool \cup
        {Expenses(<<ItemDmy>>), Expenses(<<ItemDmy, ItemTextAmount>>),
         Expenses(<<NullItem, ItemNullDate>>), Expenses(<<ItemDmy, Item280>>)}
SingleTextPool ==
    TextPool \cup {<<LineIso15, LineFare170>>, <<LineIso14, LineDailyCap>>}

SingleIdle ==
    /\ sResponse = BadJson /\ sRawText = <<>> /\ sValid = <<>>
    /\ sFinal = <<>> /\ sOutcome = "none" /\ sPc = "idle"

\* lines 664-699: the response has arrived
SingleInit ==
    /\ sResponse \in SingleResponsePool
    /\ sRawText \in SingleTextPool
    /\ sValid = <<>>
    /\ sFinal = <<>>
    /\ sOutcome = "none"
    /\ sPc = "response"

\* lines 701-725, 776-782: the response is not JSON or has no expenses array
SingleParseFails ==
    /\ sPc = "response"
    /\ parseOutcome(sResponse) # "parsed"
    /\ sOutcome' = parseOutcome(sResponse)
    /\ sPc' = "done"
    /\ UNCHANGED <<sResponse, sRawText, sValid, sFinal>>
    /\ UNCHANGED exceptSingle

\* lines 732-757: the validation loop and the heuristic fallback
SingleValidate ==
    /\ sPc = "response"
    /\ parseOutcome(sResponse) = "parsed"
    /\ sValid' = validate(sResponse.expenses)
    /\ sFinal' = finalEntriesOf(validate(sResponse.expenses),
                                heuristicEntriesOf(sRawText))
    /\ sPc' = "validated"
    /\ UNCHANGED <<sResponse, sRawText, sOutcome>>
    /\ UNCHANGED exceptSingle

\* lines 759-763, 776-782: nothing is left of a non-empty expenses array
SingleThrowsNoneCorrect ==
    /\ sPc = "validated"
    /\ noneInCorrectFormat(sFinal, sResponse.expenses)
    /\ sOutcome' = "none in correct format"
    /\ sPc' = "done"
    /\ UNCHANGED <<sResponse, sRawText, sValid, sFinal>>
    /\ UNCHANGED exceptSingle

\* lines 765-771: finalEntries is returned
SingleReturns ==
    /\ sPc = "validated"
    /\ ~noneInCorrectFormat(sFinal, sResponse.expenses)
    /\ sOutcome' = "returned"
    /\ sPc' = "done"
    /\ UNCHANGED <<sResponse, sRawText, sValid, sFinal>>
    /\ UNCHANGED exceptSingle

(***************************************************************************)
(* Chunk extraction of a PDF (extractTravelDataFromFile, lines 588-632).   *)
(* chunkState[i] is where the call processPdfChunk(chunk i) stands:        *)
(* The pages are their numbers 1..numPages; chunks holds the chunks the     *)
(* loop of lines 600-603 has pushed.                                       *)
(* "none" (not called), "started" (called: it has run to its first await,  *)
(* having reported its progress message), "inflight" (generateContent has  *)
(* sent the request), "done" (it returned), "failed" (it threw).           *)
(***************************************************************************)
MAX_CONCURRENT_CHUNKS == 3

\* variant: four pages per chunk whatever the page count
alwaysFourPages(n) == 4

\* lines 591-598
pagesPerChunk(n) == IF n <= 4 THEN n ELSE IF n <= 8 THEN 2 ELSE 4

\* lines 600-603: the number of chunks the loop pushes
chunkCount(n) == (n + pagesPerChunk(n) - 1) \div pagesPerChunk(n)

\* chunkPromises.slice(i, i + MAX_CONCURRENT_CHUNKS), as the chunk numbers
chunkBatch(i, n) == (i + 1)..Min(i + MAX_CONCURRENT_CHUNKS, n)

\* variant: a slice that includes the page at its end index
pageSliceInclusive(i, j, n) == [k \in 1..(Min(j + 1, n) - i) |-> i + k]

\* pageTexts.slice(i, j) of the n pages: the pages i+1..min(j, n)
pageSlice(i, j, n) == [k \in 1..(Min(j, n) - i) |-> i + k]

\* lines 600-603: the chunks the loop pushes for n pages, per pages per chunk
chunksBy(n, per) ==
    LET F[i \in 0..(n + per)] ==
            IF i >= n THEN <<>>
            ELSE <<pageSlice(i, i + per, n)>> \o F[i + per]
    IN  F[0]
chunksOf(n) == chunksBy(n, pagesPerChunk(n))

\* variant: the results of a batch taken as its calls complete
batchResultsAsCompleted(i, n) ==
    SelectSeq(completionLog, LAMBDA c : c \in chunkBatch(i, n))

\* lines 629-630: Promise.all(batch) resolves to the results in the order of
\* the promises of the slice; a result is named by the number of its chunk
batchResults(i, n) == [k \in 1..Cardinality(chunkBatch(i, n)) |-> i + k]

ChunkIdle ==
    /\ numPages = 0 /\ chunks = <<>> /\ chunkState = <<>> /\ batchStart = 0
    /\ chunkResults = <<>> /\ progressLog = <<>> /\ completionLog = <<>>
    /\ cPc = "idle"

\* lines 535-586: the pages of the PDF have been read
ChunkInit ==
    /\ numPages \in 1..MaxPages
    /\ chunks = <<>>
    /\ chunkState = <<>>
    /\ batchStart = 0
    /\ chunkResults = <<>>
    /\ progressLog = <<>>
    /\ completionLog = <<>>
    /\ cPc = "split"

\* lines 588-603: the pages are split into chunks
SplitPages ==
    /\ cPc = "split"
    /\ chunks' = chunksOf(numPages)
    /\ chunkState' = [i \in 1..Len(chunksOf(numPages)) |-> "none"]
    /\ cPc' = "map"
    /\ UNCHANGED <<numPages, batchStart, chunkResults, progressLog, completionLog>>
    /\ UNCHANGED exceptChunk

\* lines 610-619: chunks.map calls processPdfChunk for every chunk, in order;
\* each call runs to its first await (line 439) after its progress message
\* (line 437)
CreateChunkPromises ==
    /\ cPc = "map"
    /\ chunkState' = [i \in 1..Len(chunkState) |-> "started"]
    /\ progressLog' = [i \in 1..Len(chunkState) |-> i]
    /\ cPc' = "await"
    /\ UNCHANGED <<numPages, chunks, batchStart, chunkResults, completionLog>>
    /\ UNCHANGED exceptChunk

\* lines 439-455: after the tracing set-up, a started call sends its request
SendRequest(i) ==
    /\ chunkState[i] = "started"
    /\ chunkState' = [chunkState EXCEPT ![i] = "inflight"]
    /\ UNCHANGED <<numPages, chunks, batchStart, chunkResults, progressLog,
                   completionLog, cPc>>
    /\ UNCHANGED exceptChunk

\* the request is answered and processPdfChunk returns (lines 460-491)
ChunkReturns(i) ==
    /\ chunkState[i] = "inflight"
    /\ chunkState' = [chunkState EXCEPT ![i] = "done"]
    /\ completionLog' = Append(completionLog, i)
    /\ UNCHANGED <<numPages, chunks, batchStart, chunkResults, progressLog, cPc>>
    /\ UNCHANGED exceptChunk

\* the request fails and processPdfChunk throws (lines 106-129)
ChunkThrows(i) ==
    /\ chunkState[i] = "inflight"
    /\ chunkState' = [chunkState EXCEPT ![i] = "failed"]
    /\ completionLog' = Append(completionLog, i)
    /\ UNCHANGED <<numPages, chunks, batchStart, chunkResults, progressLog, cPc>>
    /\ UNCHANGED exceptChunk

\* line 630 resolves: every promise of the batch is fulfilled; line 631
BatchResolves ==
    /\ cPc = "await"
    /\ batchStart < Len(chunkState)
    /\ \A i \in chunkBatch(batchStart, Len(chunkState)) : chunkState[i] = "done"
    /\ chunkResults' = chunkResults \o batchResults(batchStart, Len(chunkState))
    /\ batchStart' = batchStart + MAX_CONCURRENT_CHUNKS
    /\ UNCHANGED <<numPages, chunks, chunkState, progressLog, completionLog, cPc>>
    /\ UNCHANGED exceptChunk

\* line 630 rejects: Promise.all rejects as soon as one promise of the batch
\* is rejected; the error leaves the loop (line 776)
BatchRejects ==
    /\ cPc = "await"
    /\ batchStart < Len(chunkState)
    /\ \E i \in chunkBatch(batchStart, Len(chunkState)) : chunkState[i] = "failed"
    /\ cPc' = "error"
    /\ UNCHANGED <<numPages, chunks, chunkState, batchStart, chunkResults, progressLog,
                   completionLog>>
    /\ UNCHANGED exceptChunk

\* the loop ends (line 626): the results go on to the merge
ChunksDone ==
    /\ cPc = "await"
    /\ batchStart >= Len(chunkState)
    /\ cPc' = "merge"
    /\ UNCHANGED <<numPages, chunks, chunkState, batchStart, chunkResults, progressLog,
                   completionLog>>
    /\ UNCHANGED exceptChunk

InFlight == {i \in 1..Len(chunkState) : chunkState[i] = "inflight"}

(***************************************************************************)
(* processExpenses (src/improvements.md, lines 136-305): the files are     *)
(* processed in batches of MAX_CONCURRENT_FILES.  A file is its number     *)
(* 1..n; the error message of file j's failure is j, and no message is 0.  *)
(* fileOutcome[j] is how extractTravelDataFromFile ends for file j.        *)
(***************************************************************************)
MAX_CONCURRENT_FILES == 3

\* variant: a slice one task wider than MAX_CONCURRENT_FILES
fileBatchOneWider(i, n) == (i + 1)..Min(i + MAX_CONCURRENT_FILES + 1, n)

\* fileTasks.slice(i, i + MAX_CONCURRENT_FILES), as the file numbers
fileBatch(i, n) == (i + 1)..Min(i + MAX_CONCURRENT_FILES, n)

\* variant: the loop over batchResults without its break
lastError(failed) == CHOOSE j \in failed : \A k \in failed : j >= k

\* lines 228-235: the result at which the loop over batchResults breaks
firstError(failed) == CHOOSE j \in failed : \A k \in failed : j <= k

\* lines 201-202: the batch loop goes on
loopGoesOn(err, i, n) == i < n /\ ~err

NoSummary == [set |-> FALSE, files |-> <<>>]

FileIdle ==
    /\ fileOutcome = <<>> /\ fileState = <<>> /\ fileResults = <<>>
    /\ batchIdx = 0 /\ hasError = FALSE /\ errorMessage = 0
    /\ progress = 0 /\ summary = NoSummary /\ error = 0 /\ fPc = "idle"

\* lines 143-149, 166-198: the state when the batch loop is entered
FileInit ==
    /\ fileOutcome \in UNION {[1..n -> {"ok", "throw"}] : n \in 1..MaxFiles}
    /\ fileState = [j \in 1..Len(fileOutcome) |-> "none"]
    /\ fileResults = <<>>
    /\ batchIdx = 0
    /\ hasError = FALSE
    /\ errorMessage = 0
    /\ progress = 0
    /\ summary = NoSummary
    /\ error = 0
    /\ fPc = "loop"

\* lines 201-223: batch.map calls every task of the batch; each runs to its
\* first await inside extractTravelDataFromFile
StartFileBatch ==
    /\ fPc = "loop"
    /\ loopGoesOn(hasError, batchIdx, Len(fileOutcome))
    /\ fileState' = [j \in 1..Len(fileOutcome) |->
                        IF j \in fileBatch(batchIdx, Len(fileOutcome))
                        THEN "running" ELSE fileState[j]]
    /\ fPc' = "await"
    /\ UNCHANGED <<fileOutcome, fileResults, batchIdx, hasError, errorMessage,
                   progress, summary, error>>
    /\ UNCHANGED exceptFile

\* lines 207-214: task.task() returns; the progress is set from the
\* position of the task in its batch.  progress is kept in units of
\* 1/files.length percent, so that (completed / files.length) * 100 is exact
FileSucceeds(j) ==
    /\ fileState[j] = "running"
    /\ fileOutcome[j] = "ok"
    /\ fileState' = [fileState EXCEPT ![j] = "ok"]
    /\ progress' = (Len(fileResults) + (j - batchIdx)) * 100
    /\ UNCHANGED <<fileOutcome, fileResults, batchIdx, hasError, errorMessage,
                   summary, error, fPc>>
    /\ UNCHANGED exceptFile

\* lines 215-222: task.task() throws; the wrapper returns the failure
FileFails(j) ==
    /\ fileState[j] = "running"
    /\ fileOutcome[j] = "throw"
    /\ fileState' = [fileState EXCEPT ![j] = "failed"]
    /\ UNCHANGED <<fileOutcome, fileResults, batchIdx, hasError, errorMessage,
                   progress, summary, error, fPc>>
    /\ UNCHANGED exceptFile

\* lines 225-237: Promise.all resolves once every wrapper of the batch has
\* returned; the results are pushed in batch order up to the first failure
BatchSettles ==
    /\ fPc = "await"
    /\ LET B == fileBatch(batchIdx, Len(fileOutcome))
           failed == {j \in B : fileState[j] = "failed"}
           upTo == IF failed = {} THEN batchIdx + Cardinality(B)
                   ELSE firstError(failed) - 1
       IN  /\ \A j \in B : fileState[j] \in {"ok", "failed"}
           /\ fileResults' = fileResults \o [k \in 1..(upTo - batchIdx) |-> batchIdx + k]
           /\ hasError' = (failed # {})
           /\ errorMessage' = IF failed = {} THEN errorMessage ELSE firstError(failed)
    /\ batchIdx' = batchIdx + MAX_CONCURRENT_FILES
    /\ fPc' = "loop"
    /\ UNCHANGED <<fileOutcome, fileState, progress, summary, error>>
    /\ UNCHANGED exceptFile

\* lines 239-241, 298-300: the error is thrown and caught; setError
ThrowError ==
    /\ fPc = "loop"
    /\ ~loopGoesOn(hasError, batchIdx, Len(fileOutcome))
    /\ hasError /\ errorMessage # 0
    /\ error' = errorMessage
    /\ fPc' = "caught"
    /\ UNCHANGED <<fileOutcome, fileState, fileResults, batchIdx, hasError,
                   errorMessage, progress, summary>>
    /\ UNCHANGED exceptFile

\* lines 243-296: the results are flattened and the summary is set
SetSummary ==
    /\ fPc = "loop"
    /\ ~loopGoesOn(hasError, batchIdx, Len(fileOutcome))
    /\ ~(hasError /\ errorMessage # 0)
    /\ progress' = 100 * Len(fileOutcome)
    /\ summary' = [set |-> TRUE, files |-> fileResults]
    /\ fPc' = "summary"
    /\ UNCHANGED <<fileOutcome, fileState, fileResults, batchIdx, hasError,
                   errorMessage, error>>
    /\ UNCHANGED exceptFile

\* lines 301-303: finally
Finally ==
    /\ fPc \in {"caught", "summary"}
    /\ progress' = 0
    /\ fPc' = IF fPc = "caught" THEN "failed" ELSE "done"
    /\ UNCHANGED <<fileOutcome, fileState, fileResults, batchIdx, hasError,
                   errorMessage, summary, error>>
    /\ UNCHANGED exceptFile

(***************************************************************************)
(* parseCsvToTravelEntries (src/services/geminiService.ts, lines 290-363). *)
(* csvText is the text split at its line ends; csvRow is the loop index i  *)
(* (rows are numbered from 0 as in the source); csvOutRow[k] is the row    *)
(* that pushed entry k.                                                    *)
(***************************************************************************)
Quote == "\""

\* /(date|journey|day)/.test(header) on the lowercased first line
hasDateKeyword(header) ==
    \/ Contains(header, <<"d", "a", "t", "e">>)
    \/ Contains(header, <<"j", "o", "u", "r", "n", "e", "y">>)
    \/ Contains(header, <<"d", "a", "y">>)

\* /(amount|total|charge|cost)/.test(header)
hasAmountKeyword(header) ==
    \/ Contains(header, <<"a", "m", "o", "u", "n", "t">>)
    \/ Contains(header, KwTotal)
    \/ Contains(header, <<"c", "h", "a", "r", "g", "e">>)
    \/ Contains(header, <<"c", "o", "s", "t">>)

\* lines 297-300, for a non-empty array of lines
hasHeader(ls) ==
    hasDateKeyword(LowerStr(ls[1])) /\ hasAmountKeyword(LowerStr(ls[1]))

\* line 301
startIdx(ls) == IF hasHeader(ls) THEN 1 ELSE 0

\* the separators of /,(?=(?:[^"]*"[^"]*")*[^"]*$)|;|\t/ : a comma that is
\* followed by an even number of quotes, a semicolon or a tab
quotesAfter(row, p) == Cardinality({q \in (p + 1)..Len(row) : row[q] = Quote})
isSeparator(row, p) ==
    \/ row[p] = "," /\ quotesAfter(row, p) % 2 = 0
    \/ row[p] = ";"
    \/ row[p] = "\t"

\* row.split(separator)
appendToLast(cols, c) == [cols EXCEPT ![Len(cols)] = Append(@, c)]
splitRow(row) ==
    LET G[k \in 0..Len(row)] ==
            IF k = 0 THEN << <<>> >>
            ELSE IF isSeparator(row, k) THEN Append(G[k - 1], <<>>)
                 ELSE appendToLast(G[k - 1], row[k])
    IN  G[Len(row)]

\* c.replace(/^"|"$/g, "")
stripQuotesFrom(c, lo) ==
    Slice(c, lo, IF Len(c) >= lo /\ c[Len(c)] = Quote THEN Len(c) - 1 ELSE Len(c))
stripQuotes(c) ==
    stripQuotesFrom(c, IF Len(c) >= 1 /\ c[1] = Quote THEN 2 ELSE 1)

\* lines 343-345
colsOf(row) == [k \in 1..Len(splitRow(row)) |-> Trim(stripQuotes(splitRow(row)[k]))]

\* /^(\d{4})-(\d{2})-(\d{2})$/
isIsoForm(d) ==
    /\ Len(d) = 10
    /\ DigitsAt(d, 1, 4) /\ d[5] = "-" /\ DigitsAt(d, 6, 2) /\ d[8] = "-"
    /\ DigitsAt(d, 9, 2)

\* /^(\d{1,2})[/-](\d{1,2})[/-](\d{2,4})$/ with the day in 1..e1 and the
\* month in (e1 + 2)..e2: the groups <<d, m, y>>, or <<>> for null
dmyGroups(d, e1, e2) ==
    IF /\ e1 \in 1..2
       /\ e1 + 1 <= Len(d) /\ d[e1 + 1] \in {"/", "-"}
       /\ (e2 - e1 - 1) \in 1..2
       /\ e2 + 1 <= Len(d) /\ d[e2 + 1] \in {"/", "-"}
       /\ (Len(d) - e2 - 1) \in 2..4
       /\ AllDigits(Slice(d, e2 + 2, Len(d)))
    THEN <<Slice(d, 1, e1), Slice(d, e1 + 2, e2), Slice(d, e2 + 2, Len(d))>>
    ELSE <<>>
dmyFromDay(d, e1) == dmyGroups(d, e1, RunEnd(d, e1 + 2, Digits))
matchDmy(d) == dmyFromDay(d, RunEnd(d, 1, Digits))

\* lines 311-314
isoOfDmy(m) ==
    (IF Len(m[3]) = 2 THEN <<"2", "0">> \o m[3] ELSE m[3]) \o <<"-">>
        \o PadStart2(NatToStr(ParseInt(m[2]))) \o <<"-">>
        \o PadStart2(NatToStr(ParseInt(m[1])))

\* /^(\d{1,2})[ -](Jan|...|Dec)\w*[ -](\d{4})$/i with the day in 1..e1 and
\* the month word in (e1 + 2)..e2: the groups <<d, month, y>>, or <<>>
dMonthYGroups(d, e1, e2) ==
    IF /\ e1 \in 1..2
       /\ e1 + 1 <= Len(d) /\ d[e1 + 1] \in {" ", "-"}
       /\ IsMonthAt(d, e1 + 2)
       /\ e2 + 1 <= Len(d) /\ d[e2 + 1] \in {" ", "-"}
       /\ Len(d) = e2 + 5
       /\ DigitsAt(d, e2 + 2, 4)
    THEN <<Slice(d, 1, e1), SubStr(d, e1 + 2, 3), Slice(d, e2 + 2, Len(d))>>
    ELSE <<>>
dMonthYFromDay(d, e1) == dMonthYGroups(d, e1, RunEnd(d, e1 + 2, WordChars))
matchDMonthY(d) == dMonthYFromDay(d, RunEnd(d, 1, Digits))

\* lines 319-337
isoOfDMonthY(m) ==
    m[3] \o <<"-">> \o PadStart2(NatToStr(monthMap(m[2]))) \o <<"-">>
        \o PadStart2(NatToStr(ParseInt(m[1])))

\* toISODate of a trimmed string (lines 303-339); <<>> is null
isoOfTrimmed(d) ==
    IF isIsoForm(d) THEN d
    ELSE IF matchDmy(d) # <<>> THEN isoOfDmy(matchDmy(d))
    ELSE IF matchDMonthY(d) # <<>> THEN isoOfDMonthY(matchDMonthY(d))
    ELSE <<>>
toISODate(c) == isoOfTrimmed(Trim(c))

\* start of the maximal run of characters of the class Cls that ends at e
RunStart(c, e, Cls) ==
    LET G[k \in 0..e] ==
            IF k >= 1 /\ c[k] \in Cls THEN G[k - 1] ELSE k + 1
    IN  G[e]

\* group 1 of /-?\s*(pound)?\s*(\d+(?:\.\d{2})?)\s*$/ for the digit run r..e
\* that ends the column: the run with the digits and the "." before it when
\* the run is two digits after "." after a digit, as <<integer digits,
\* decimal digits>>
amountGroup(c, r, e) ==
    IF e - r + 1 = 2 /\ r >= 3 /\ c[r - 1] = "." /\ IsDigit(c[r - 2])
    THEN <<Slice(c, RunStart(c, r - 2, Digits), r - 2), Slice(c, r, e)>>
    ELSE <<Slice(c, r, e), <<>> >>
amountEndingAt(c, e) ==
    IF e >= 1 /\ IsDigit(c[e]) THEN amountGroup(c, RunStart(c, e, Digits), e)
    ELSE <<>>
\* cols[j].match(...), <<>> for null
matchCsvAmount(c) == amountEndingAt(c, LastNonSpace(c))

\* parseFloat(match[1])
parseFloatCsv(m) ==
    Num(FALSE, ParseInt(m[1]) * 1000 + (IF m[2] = <<>> THEN 0 ELSE ParseInt(m[2]) * 10))

\* lines 349-357: the column the amount is taken from, the first that
\* matches when j runs from cols.length - 1 down to 0; -1 when none matches
matchingColumns(cols) ==
    {j \in 0..(Len(cols) - 1) : matchCsvAmount(cols[j + 1]) # <<>>}
amountColumn(cols) ==
    IF matchingColumns(cols) = {} THEN -1
    ELSE CHOOSE j \in matchingColumns(cols) : \A k \in matchingColumns(cols) : j >= k

\* lines 346-360 for the columns of one row: the entries it pushes
entryOfCols(cols, date, j) ==
    IF Len(cols) < 2 THEN <<>>
    ELSE IF date # <<>> /\ j # -1
         THEN <<TravelEntry(date, parseFloatCsv(matchCsvAmount(cols[j + 1])))>>
         ELSE <<>>
rowEntriesOf(cols) ==
    IF Len(cols) < 2 THEN <<>>
    ELSE entryOfCols(cols, toISODate(cols[1]), amountColumn(cols))
rowEntries(row) == rowEntriesOf(colsOf(row))

\* The lines of the CSV texts the parser is run on.
\* 'Date,Amount'
RowHeader ==
    <<"D", "a", "t", "e", ",", "A", "m", "o", "u", "n", "t">>
\* 'Date,Fare'
RowDateFare ==
    <<"D", "a", "t", "e", ",", "F", "a", "r", "e">>
\* '14/10/2025,(pound)2.80'
RowDmy280 ==
    <<"1", "4", "/", "1", "0", "/", "2", "0", "2", "5", ",", PoundSign,
      "2", ".", "8", "0">>
\* '2025-10-15,1.70'
RowIso170 ==
    <<"2", "0", "2", "5", "-", "1", "0", "-", "1", "5", ",", "1", ".", "7",
      "0">>
\* '14/10/2025,n/a'
RowNoAmount ==
    <<"1", "4", "/", "1", "0", "/", "2", "0", "2", "5", ",", "n", "/", "a">>
\* '15-10-25;1.50;2.80'
RowThreeCols ==
    <<"1", "5", "-", "1", "0", "-", "2", "5", ";", "1", ".", "5", "0", ";",
      "2", ".", "8", "0">>
\* '14/10/202,(pound)2.80'
RowShortYear ==
    <<"1", "4", "/", "1", "0", "/", "2", "0", "2", ",", PoundSign, "2",
      ".", "8", "0">>
\* '14 Oct 2025,"Day total, capped",7.70'
RowDayTotal ==
    <<"1", "4", " ", "O", "c", "t", " ", "2", "0", "2", "5", ",", Quote,
      "D", "a", "y", " ", "t", "o", "t", "a", "l", ",", " ", "c", "a", "p",
      "p", "e", "d", Quote, ",", "7", ".", "7", "0">>
\* ' '
RowBlank ==
    <<" ">>

RowPool ==
    {RowHeader, RowDateFare, RowDmy280, RowIso170, RowNoAmount, RowThreeCols,
     RowShortYear, RowDayTotal, RowBlank}

CsvIdle ==
    /\ csvText = <<>> /\ csvRow = 0 /\ csvOut = <<>> /\ csvOutRow = <<>>
    /\ csvPc = "idle"

\* the call parseCsvToTravelEntries(text)
CsvInit ==
    /\ csvText \in UNION {[1..n -> RowPool] : n \in 1..MaxRows}
    /\ csvRow = 0
    /\ csvOut = <<>>
    /\ csvOutRow = <<>>
    /\ csvPc = "start"

\* line 295: no line is left after the filter
CsvNoLines ==
    /\ csvPc = "start"
    /\ splitLines(csvText) = <<>>
    /\ csvPc' = "done"
    /\ UNCHANGED <<csvText, csvRow, csvOut, csvOutRow>>
    /\ UNCHANGED exceptCsv

\* lines 297-301: the header test sets the first row of the loop
CsvDetectHeader ==
    /\ csvPc = "start"
    /\ splitLines(csvText) # <<>>
    /\ csvRow' = startIdx(splitLines(csvText))
    /\ csvPc' = "rows"
    /\ UNCHANGED <<csvText, csvOut, csvOutRow>>
    /\ UNCHANGED exceptCsv

\* lines 341-361: one iteration of the loop over the rows
CsvRowStep ==
    /\ csvPc = "rows"
    /\ csvRow < Len(splitLines(csvText))
    /\ \E r \in {rowEntries(splitLines(csvText)[csvRow + 1])} :
          /\ csvOut' = csvOut \o r
          /\ csvOutRow' = csvOutRow \o [k \in 1..Len(r) |-> csvRow]
    /\ csvRow' = csvRow + 1
    /\ UNCHANGED <<csvText, csvPc>>
    /\ UNCHANGED exceptCsv

\* line 362: return out
CsvReturn ==
    /\ csvPc = "rows"
    /\ csvRow >= Len(splitLines(csvText))
    /\ csvPc' = "done"
    /\ UNCHANGED <<csvText, csvRow, csvOut, csvOutRow>>
    /\ UNCHANGED exceptCsv


(***************************************************************************)
(* mergeEntriesByMaxCount folded over three passes, as the fold of         *)
(* extractTravelDataFromFile (lines 634-655) applies it pass after pass.   *)
(***************************************************************************)
ReducePool ==
    {TravelEntry(D14, Num(FALSE, 2800)), TravelEntry(D14, Num(FALSE, 1)),
     TravelEntry(D14, Num(TRUE, 1))}

ReduceIdle == passList = <<>> /\ folded = <<>> /\ rPc = "idle"

ReduceInit ==
    /\ passList \in [1..3 -> SeqUpTo(ReducePool, MaxEntries)]
    /\ folded = <<>>
    /\ rPc = "start"

\* the passes merged one after the other, in the order of the list
FoldPasses ==
    /\ rPc = "start"
    /\ folded' = mergeEntriesByMaxCount(
                     mergeEntriesByMaxCount(passList[1], passList[2]), passList[3])
    /\ rPc' = "done"
    /\ UNCHANGED passList
    /\ UNCHANGED exceptReduce

(***************************************************************************)
(* A chunked PDF from its pages (extractTravelDataFromFile, lines 586-663):*)
(* pageTexts[i] is the text of page i as its lines.  The raw text of the   *)
(* heuristic pass is joined from all the pages (line 586); the chunks'     *)
(* responses are folded as in the result assembly above.                   *)
(***************************************************************************)
DocPages == 5

\* variant: the raw text is the text of the last page alone
lastPageOnly(ps) == ps[Len(ps)]

\* line 586: pageTexts.join("\n\n"), as lines
joinPages(ps) ==
    LET F[i \in 0..Len(ps)] ==
            IF i = 0 THEN <<>>
            ELSE IF i = 1 THEN ps[1]
            ELSE F[i - 1] \o << <<>> >> \o ps[i]
    IN  F[Len(ps)]

PagePool == {<<LineIso14>>, <<LineFare280>>, <<LineIso15, LineFare170>>}
PageResponsePool == {Expenses(<<>>), Expenses(<<Item280>>)}

PagesIdle == pageTexts = <<>>

\* lines 535-585: the pages have been read; one response per chunk
PagesInit ==
    /\ pageTexts \in [1..DocPages -> PagePool]
    /\ responses \in [1..chunkCount(DocPages) -> PageResponsePool]
    /\ rawTextForFallback = <<>>
    /\ docChunkResults = <<>>
    /\ mergedEntries = <<>>
    /\ foldIdx = 0
    /\ dPc = "pages"

\* line 586
JoinPages ==
    /\ dPc = "pages"
    /\ rawTextForFallback' = joinPages(pageTexts)
    /\ dPc' = "chunks"
    /\ UNCHANGED <<responses, docChunkResults, mergedEntries, foldIdx>>
    /\ UNCHANGED exceptDoc

(***************************************************************************)
(* The rate limiter of the proxy (src/server/index.js, lines 40-74).       *)
(* requestCounts[ip] is the record of the Map, has = FALSE when the Map    *)
(* holds none; now is Date.now() in milliseconds, which the model reads    *)
(* every TickMs; passedOn[ip][t] counts the requests of ip at time t that  *)
(* rateLimit passed on to the handler with next(); answer is the status of *)
(* the last request (200 stands for next()).                               *)
(***************************************************************************)
RATE_LIMIT_WINDOW == 60000
RATE_LIMIT_MAX == 30
TickMs == 40000
MaxTicks == 2

Clients == {"10.0.0.1"}
Times == {k * TickMs : k \in 0..MaxTicks}
NoRecord == [has |-> FALSE, count |-> 0, resetTime |-> 0]


\* line 66
limitReached(record) == record.count >= RATE_LIMIT_MAX

RateIdle ==
    /\ now = 0 /\ requestCounts = <<>> /\ passedOn = <<>> /\ answer = 0

\* line 41: the Map is empty when the server starts
RateInit ==
    /\ now = 0
    /\ requestCounts = [ip \in Clients |-> NoRecord]
    /\ passedOn = [ip \in Clients |-> [t \in Times |-> 0]]
    /\ answer = 0

PassOn(ip) == [passedOn EXCEPT ![ip][now] = @ + 1]

\* lines 53-56: the first request of an address
FirstRequest(ip) ==
    /\ ~requestCounts[ip].has
    /\ requestCounts' = [requestCounts EXCEPT
           ![ip] = [has |-> TRUE, count |-> 1, resetTime |-> now + RATE_LIMIT_WINDOW]]
    /\ passedOn' = PassOn(ip)
    /\ answer' = 200
    /\ UNCHANGED now
    /\ UNCHANGED exceptRate

\* lines 60-64: the window of the record is over
RequestAfterWindow(ip) ==
    /\ requestCounts[ip].has
    /\ now > requestCounts[ip].resetTime
    /\ requestCounts' = [requestCounts EXCEPT
           ![ip] = [has |-> TRUE, count |-> 1, resetTime |-> now + RATE_LIMIT_WINDOW]]
    /\ passedOn' = PassOn(ip)
    /\ answer' = 200
    /\ UNCHANGED now
    /\ UNCHANGED exceptRate

\* lines 66-70: the limit is reached
RequestRejected(ip) ==
    /\ requestCounts[ip].has
    /\ ~(now > requestCounts[ip].resetTime)
    /\ limitReached(requestCounts[ip])
    /\ answer' = 429
    /\ UNCHANGED <<now, requestCounts, passedOn>>
    /\ UNCHANGED exceptRate

\* lines 72-73
RequestCounted(ip) ==
    /\ requestCounts[ip].has
    /\ ~(now > requestCounts[ip].resetTime)
    /\ ~limitReached(requestCounts[ip])
    /\ requestCounts' = [requestCounts EXCEPT ![ip].count = @ + 1]
    /\ passedOn' = PassOn(ip)
    /\ answer' = 200
    /\ UNCHANGED now
    /\ UNCHANGED exceptRate

\* time passes between two requests
Tick ==
    /\ now + TickMs \in Times
    /\ now' = now + TickMs
    /\ UNCHANGED <<requestCounts, passedOn, answer>>
    /\ UNCHANGED exceptRate

(***************************************************************************)
(* rebuildPageTextWithLineBreaks (src/services/geminiService.ts, lines     *)
(* 137-174).  An item is [x, y, str] with x = transform[4] and             *)
(* y = transform[5]; pageLines is the array `lines` of the source;         *)
(* lineOfItem[i] is the index in pageLines of the line item i was pushed   *)
(* to; outText is the returned text as the sequence of its lines.          *)
(***************************************************************************)
MaxTokens == 3
yThreshold == 2

Abs(n) == IF n < 0 THEN 0 - n ELSE n

\* line 153: lines.find((l) => Math.abs(l.y - y) <= yThreshold), as the index
\* of the first such line, 0 when there is none
findLine(ls, y) ==
    IF \E k \in 1..Len(ls) : Abs(ls[k].y - y) <= yThreshold
    THEN CHOOSE k \in 1..Len(ls) :
             /\ Abs(ls[k].y - y) <= yThreshold
             /\ \A j \in 1..(k - 1) : Abs(ls[j].y - y) > yThreshold
    ELSE 0

\* lines 154-158: the item is pushed to the line found, or to a new line
pushPart(ls, k, item) ==
    IF k = 0
    THEN Append(ls, [y |-> item.y, parts |-> <<[x |-> item.x, str |-> item.str]>>])
    ELSE [ls EXCEPT ![k].parts = Append(@, [x |-> item.x, str |-> item.str])]

\* Array.prototype.sort is stable: an element goes after the n elements of
\* the sorted array that are not after it in the order
insertAt(sorted, e, n) ==
    SubSeq(sorted, 1, n) \o <<e>> \o SubSeq(sorted, n + 1, Len(sorted))
insertByYDesc(sorted, e) ==
    insertAt(sorted, e, Cardinality({k \in 1..Len(sorted) : sorted[k].y >= e.y}))
insertByX(sorted, e) ==
    insertAt(sorted, e, Cardinality({k \in 1..Len(sorted) : sorted[k].x <= e.x}))

\* line 161: lines.sort((a, b) => b.y - a.y)
sortLinesByY(ls) ==
    LET F[k \in 0..Len(ls)] ==
            IF k = 0 THEN <<>> ELSE insertByYDesc(F[k - 1], ls[k])
    IN  F[Len(ls)]

\* line 165: l.parts.sort((a, b) => a.x - b.x)
sortPartsByX(parts) ==
    LET F[k \in 0..Len(parts)] ==
            IF k = 0 THEN <<>> ELSE insertByX(F[k - 1], parts[k])
    IN  F[Len(parts)]

\* lines 166-167: .map((p) => p.str).join(" ")
joinParts(parts) ==
    LET F[k \in 0..Len(parts)] ==
            IF k = 0 THEN <<>>
            ELSE IF k = 1 THEN parts[1].str
            ELSE F[k - 1] \o <<" ">> \o parts[k].str
    IN  F[Len(parts)]

\* lines 163-170: the text of one line
lineText(l) == Trim(CollapseSpaces(joinParts(sortPartsByX(l.parts))))

\* lines 161-173: sort the lines, render each, drop the empty ones
renderLines(ls) ==
    LET sorted == sortLinesByY(ls)
    IN  SelectSeq([k \in 1..Len(sorted) |-> lineText(sorted[k])],
                  LAMBDA t : t # <<>>)

TokenYs == {0, 2, 3, 10}
TokenPool ==
    {[x |-> 0, y |-> y, str |-> <<"a">>] : y \in TokenYs}
        \cup {[x |-> 10, y |-> y, str |-> <<"b">>] : y \in TokenYs}
        \cup {[x |-> 5, y |-> 3, str |-> <<>>]}

LayoutIdle ==
    /\ items = <<>> /\ itemIdx = 0 /\ pageLines = <<>> /\ lineOfItem = <<>>
    /\ outText = <<>> /\ lPc = "idle"

LayoutInit ==
    /\ items \in SeqUpTo(TokenPool, MaxTokens)
    /\ itemIdx = 1 /\ pageLines = <<>> /\ lineOfItem = <<>>
    /\ outText = <<>> /\ lPc = "items"

\* lines 148-159: one turn of the item loop
PlaceItem ==
    /\ lPc = "items" /\ itemIdx <= Len(items)
    /\ \E k \in {findLine(pageLines, items[itemIdx].y)} :
          /\ pageLines' = pushPart(pageLines, k, items[itemIdx])
          /\ lineOfItem' = Append(lineOfItem,
                                  IF k = 0 THEN Len(pageLines) + 1 ELSE k)
    /\ itemIdx' = itemIdx + 1
    /\ UNCHANGED <<items, outText, lPc>>
    /\ UNCHANGED exceptLayout

\* lines 161-173: after the loop the lines are sorted, rendered and joined
RenderPage ==
    /\ lPc = "items" /\ itemIdx > Len(items)
    /\ outText' = renderLines(pageLines)
    /\ lPc' = "done"
    /\ UNCHANGED <<items, itemIdx, pageLines, lineOfItem>>
    /\ UNCHANGED exceptLayout

(***************************************************************************)
(* The FileUpload component (src/components/Calendar.tsx, lines 181-265).  *)
(* selectedFiles, fileLimitError and isDragging are its state;             *)
(* uploadEvent is the event the last handler was called with;              *)
(* onFilesSelectedArg is the argument of the last onFilesSelected call and *)
(* onFilesSelectedCalls the number of calls; uploadSteps counts the        *)
(* events handled.  A file is its name.                                    *)
(***************************************************************************)
MaxUploadEvents == 4
MaxNewFiles == 2
MAX_FILES == 3

FileNames == {"a.pdf", "b.csv"}
NewFileLists == UNION {[1..n -> FileNames] : n \in 0..MaxNewFiles}
NoEvent == [type |-> "none", files |-> <<>>, index |-> 0]
LimitMessage == "Maximum 3 files allowed. Please remove some files first."

\* variant: the limit is checked against one file more
overLimitByTwo(totalFiles) == totalFiles > MAX_FILES + 1

\* lines 196 and 219: if (totalFiles > MAX_FILES)
overLimit(totalFiles) == totalFiles > MAX_FILES

\* lines 256-257: newFiles.splice(index, 1), index counted from 0
splice1(files, index) ==
    SubSeq(files, 1, index) \o SubSeq(files, index + 2, Len(files))

UploadIdle ==
    /\ selectedFiles = <<>> /\ fileLimitError = "null" /\ isDragging = FALSE
    /\ uploadEvent = NoEvent /\ onFilesSelectedArg = <<>>
    /\ onFilesSelectedCalls = 0 /\ uploadSteps = MaxUploadEvents

\* lines 187-189: the initial state of the component
UploadInit ==
    /\ selectedFiles = <<>> /\ fileLimitError = "null" /\ isDragging = FALSE
    /\ uploadEvent = NoEvent /\ onFilesSelectedArg = <<>>
    /\ onFilesSelectedCalls = 0 /\ uploadSteps = 0

\* an event handler runs
Handles(event) ==
    /\ uploadSteps < MaxUploadEvents
    /\ uploadSteps' = uploadSteps + 1
    /\ uploadEvent' = event

\* lines 203-207 and 227-231: the new files are appended and reported
acceptFiles(newFiles) ==
    /\ fileLimitError' = "null"
    /\ selectedFiles' = selectedFiles \o newFiles
    /\ onFilesSelectedArg' = selectedFiles \o newFiles
    /\ onFilesSelectedCalls' = onFilesSelectedCalls + 1

\* lines 196-201 and 219-225: the limit error is set and the handler returns
rejectFiles ==
    /\ fileLimitError' = LimitMessage
    /\ UNCHANGED <<selectedFiles, onFilesSelectedArg, onFilesSelectedCalls>>

\* handleFileChange (lines 191-209): the picker's input changed
handleFileChange ==
    \E newFiles \in NewFileLists :
        /\ Handles([type |-> "change", files |-> newFiles, index |-> 0])
        /\ IF overLimit(Len(selectedFiles) + Len(newFiles))
           THEN rejectFiles
           ELSE acceptFiles(newFiles)
        /\ UNCHANGED isDragging
        /\ UNCHANGED exceptUpload

\* handleDrop (lines 211-236): files were dropped on the zone
handleDrop ==
    \E newFiles \in NewFileLists :
        /\ Handles([type |-> "drop", files |-> newFiles, index |-> 0])
        /\ isDragging' = FALSE
        /\ IF Len(newFiles) > 0
           THEN IF overLimit(Len(selectedFiles) + Len(newFiles))
                THEN rejectFiles
                ELSE acceptFiles(newFiles)
           ELSE UNCHANGED <<selectedFiles, fileLimitError, onFilesSelectedArg,
                            onFilesSelectedCalls>>
        /\ UNCHANGED exceptUpload

\* handleDragEnter (lines 243-247) and handleDragLeave (lines 249-253)
handleDragEnter ==
    /\ Handles([type |-> "dragenter", files |-> <<>>, index |-> 0])
    /\ isDragging' = TRUE
    /\ UNCHANGED <<selectedFiles, fileLimitError, onFilesSelectedArg,
                   onFilesSelectedCalls>>
    /\ UNCHANGED exceptUpload
handleDragLeave ==
    /\ Handles([type |-> "dragleave", files |-> <<>>, index |-> 0])
    /\ isDragging' = FALSE
    /\ UNCHANGED <<selectedFiles, fileLimitError, onFilesSelectedArg,
                   onFilesSelectedCalls>>
    /\ UNCHANGED exceptUpload

\* removeFile (lines 255-260), called with the index of a listed file
removeFile ==
    \E index \in 0..(Len(selectedFiles) - 1) :
        /\ Handles([type |-> "remove", files |-> <<>>, index |-> index])
        /\ selectedFiles' = splice1(selectedFiles, index)
        /\ onFilesSelectedArg' = splice1(selectedFiles, index)
        /\ onFilesSelectedCalls' = onFilesSelectedCalls + 1
        /\ UNCHANGED <<fileLimitError, isDragging>>
        /\ UNCHANGED exceptUpload

\* clearAllFiles (lines 262-265); its button is shown when more than one
\* file is listed (line 322)
clearAllFiles ==
    /\ Len(selectedFiles) > 1
    /\ Handles([type |-> "clear", files |-> <<>>, index |-> 0])
    /\ selectedFiles' = <<>>
    /\ onFilesSelectedArg' = <<>>
    /\ onFilesSelectedCalls' = onFilesSelectedCalls + 1
    /\ UNCHANGED <<fileLimitError, isDragging>>
    /\ UNCHANGED exceptUpload

(***************************************************************************)
(* The report of processExpenses (src/improvements.md, lines 254-296).     *)
(* allTravelEntries are the flattened results of the files; a selected     *)
(* date is a Date as [year, month, date] with month counted from 0;        *)
(* dailyTotals and monthlySummaries are the two Maps as arrays in          *)
(* insertion order; report is the argument of setSummary.                  *)
(*                                                                         *)
(* The amounts are JavaScript numbers: every sum is rounded to the nearest *)
(* number the format can hold, ties to the even significand.  The model    *)
(* keeps the rounding with a significand of SignificandBits bits where     *)
(* binary64 has 53; the numbers are finite and counted in thousandths.     *)
(***************************************************************************)
MaxReportEntries == 3
SignificandBits == 8

RECURSIVE Pow2(_)
Pow2(e) == IF e = 0 THEN 1 ELSE 2 * Pow2(e - 1)

\* the weight of the last bit of the significand of n >= 2^SignificandBits
ulpOf(n) ==
    CHOOSE q \in {Pow2(e) : e \in 1..20} :
        /\ q * Pow2(SignificandBits - 1) <= n
        /\ n < q * Pow2(SignificandBits)

\* n rounded to a multiple of q, a tie to the even multiple
roundToMultiple(n, q) ==
    IF 2 * (n % q) < q THEN n - (n % q)
    ELSE IF 2 * (n % q) > q THEN n - (n % q) + q
    ELSE IF ((n - (n % q)) \div q) % 2 = 0 THEN n - (n % q)
    ELSE n - (n % q) + q

\* a magnitude rounded to the significand
roundToSignificand(n) ==
    IF n < Pow2(SignificandBits) THEN n ELSE roundToMultiple(n, ulpOf(n))

signedValue(x) == IF x.neg THEN 0 - x.mag ELSE x.mag
ofSigned(v) == IF v < 0 THEN Num(TRUE, roundToSignificand(0 - v))
               ELSE Num(FALSE, roundToSignificand(v))

\* x + y on finite numbers
plus(x, y) == ofSigned(signedValue(x) + signedValue(y))

DNov3 == <<"2", "0", "2", "5", "-", "1", "1", "-", "0", "3">>

\* .toString().padStart(2, "0") of a number below 100
padStart2(n) == <<DigitChar(n \div 10), DigitChar(n % 10)>>
\* .toString() of a year of four digits
yearString(y) ==
    <<DigitChar(y \div 1000), DigitChar((y \div 100) % 10),
      DigitChar((y \div 10) % 10), DigitChar(y % 10)>>

\* lines 255-260: `${year}-${month}-${day}` of a selected Date
workdayString(d) ==
    yearString(d.year) \o <<"-">> \o padStart2(d.month + 1) \o <<"-">>
        \o padStart2(d.date)

\* lines 254-261: the Set of the selected workdays
selectedWorkdayDatesOf(dates) == {workdayString(d) : d \in dates}

\* lines 263-265: entry.date && selectedWorkdayDates.has(entry.date)
filterByWorkday(entries, workdays) ==
    SelectSeq(entries, LAMBDA e : e.date # <<>> /\ e.date \in workdays)

\* map.set(key, (map.get(key) || 0) + amount), the Map as the array of its
\* entries in insertion order
mapAdd(m, k, amount) ==
    IF \E i \in 1..Len(m) : m[i].key = k
    THEN [i \in 1..Len(m) |->
             IF m[i].key = k
             THEN [key |-> k, total |-> plus(m[i].total, amount)]
             ELSE m[i]]
    ELSE Append(m, [key |-> k, total |-> plus(Num(FALSE, 0), amount)])

\* lines 267-276: the daily totals
dailyTotalsOf(entries) ==
    LET F[k \in 0..Len(entries)] ==
            IF k = 0 THEN <<>>
            ELSE mapAdd(F[k - 1], entries[k].date, entries[k].amount)
    IN  F[Len(entries)]

\* line 280: entry.date.substring(0, 7)
monthOf(date) == SubSeq(date, 1, Min(7, Len(date)))

\* a.localeCompare(b) < 0 on texts of digits and hyphens
charRank(c) == IF IsDigit(c) THEN DigitVal(c) + 1 ELSE 0
localeBefore(s, t) ==
    \E k \in 1..(Len(t)) :
        /\ \A j \in 1..(k - 1) : j <= Len(s) /\ s[j] = t[j]
        /\ \/ k > Len(s)
           \/ charRank(s[k]) < charRank(t[k])

insertByMonth(sorted, e) ==
    insertAt(sorted, e,
             Cardinality({k \in 1..Len(sorted) : ~localeBefore(e.key, sorted[k].key)}))

\* lines 278-285: the monthly totals in insertion order
monthlyMapOf(entries) ==
    LET F[k \in 0..Len(entries)] ==
            IF k = 0 THEN <<>>
            ELSE mapAdd(F[k - 1], monthOf(entries[k].date), entries[k].amount)
    IN  F[Len(entries)]

\* lines 287-289: .sort((a, b) => a.month.localeCompare(b.month))
sortByMonth(m) ==
    LET F[k \in 0..Len(m)] ==
            IF k = 0 THEN <<>> ELSE insertByMonth(F[k - 1], m[k])
    IN  F[Len(m)]
monthlySummariesOf(entries) == sortByMonth(monthlyMapOf(entries))

\* lines 291-294: filteredEntries.reduce((acc, entry) => acc + entry.amount, 0)
totalOf(entries) ==
    LET F[k \in 0..Len(entries)] ==
            IF k = 0 THEN Num(FALSE, 0) ELSE plus(F[k - 1], entries[k].amount)
    IN  F[Len(entries)]

Oct14 == [year |-> 2025, month |-> 9, date |-> 14]
Oct15 == [year |-> 2025, month |-> 9, date |-> 15]
Nov3 == [year |-> 2025, month |-> 10, date |-> 3]
SelectableDates == {Oct14, Oct15, Nov3}
ReportAmounts == {Num(FALSE, 2800), Num(FALSE, 1400)}
ReportPool == {TravelEntry(d, x) : d \in {D14, D15, DNov3}, x \in ReportAmounts}
NoReport == [set |-> FALSE, monthlySummaries |-> <<>>, total |-> Num(FALSE, 0),
             dailyTotals |-> <<>>]

ReportIdle ==
    /\ allTravelEntries = <<>> /\ selectedDates = {} /\ filteredEntries = <<>>
    /\ dailyTotals = <<>> /\ monthlySummaries = <<>> /\ report = NoReport
    /\ repPc = "idle"

\* lines 243-252: the results of the files have been flattened
ReportInit ==
    /\ allTravelEntries \in SeqUpTo(ReportPool, MaxReportEntries)
    /\ selectedDates \in SUBSET SelectableDates
    /\ filteredEntries = <<>> /\ dailyTotals = <<>> /\ monthlySummaries = <<>>
    /\ report = NoReport
    /\ repPc = "filter"

\* lines 254-265
FilterEntries ==
    /\ repPc = "filter"
    /\ filteredEntries' =
           filterByWorkday(allTravelEntries, selectedWorkdayDatesOf(selectedDates))
    /\ repPc' = "daily"
    /\ UNCHANGED <<allTravelEntries, selectedDates, dailyTotals,
                   monthlySummaries, report>>
    /\ UNCHANGED exceptReport

\* lines 267-276
DailyTotals ==
    /\ repPc = "daily"
    /\ dailyTotals' = dailyTotalsOf(filteredEntries)
    /\ repPc' = "monthly"
    /\ UNCHANGED <<allTravelEntries, selectedDates, filteredEntries,
                   monthlySummaries, report>>
    /\ UNCHANGED exceptReport

\* lines 278-289
MonthlySummaries ==
    /\ repPc = "monthly"
    /\ monthlySummaries' = monthlySummariesOf(filteredEntries)
    /\ repPc' = "total"
    /\ UNCHANGED <<allTravelEntries, selectedDates, filteredEntries,
                   dailyTotals, report>>
    /\ UNCHANGED exceptReport

\* lines 291-296: the grand total, and setSummary
SetReport ==
    /\ repPc = "total"
    /\ report' = [set |-> TRUE, monthlySummaries |-> monthlySummaries,
                  total |-> totalOf(filteredEntries),
                  dailyTotals |-> dailyTotals]
    /\ repPc' = "done"
    /\ UNCHANGED <<allTravelEntries, selectedDates, filteredEntries,
                   dailyTotals, monthlySummaries>>
    /\ UNCHANGED exceptReport

(***************************************************************************)
(* Specifications: one per part of the program, the other parts at rest.   *)
(***************************************************************************)
InitMerge == MergeInit /\ HeurIdle /\ ValidIdle /\ ChunkIdle /\ FileIdle /\ DocIdle /\ SingleIdle /\ CsvIdle /\ ReduceIdle /\ PagesIdle /\ RateIdle /\ LayoutIdle /\ UploadIdle /\ ReportIdle
NextMerge == Merge
SpecMerge == InitMerge /\ [][NextMerge]_vars

InitHeur == HeurInit /\ MergeIdle /\ ValidIdle /\ ChunkIdle /\ FileIdle /\ DocIdle /\ SingleIdle /\ CsvIdle /\ ReduceIdle /\ PagesIdle /\ RateIdle /\ LayoutIdle /\ UploadIdle /\ ReportIdle
NextHeur == HeurStep
SpecHeur == InitHeur /\ [][NextHeur]_vars

InitValid == ValidInit /\ MergeIdle /\ HeurIdle /\ ChunkIdle /\ FileIdle /\ DocIdle /\ SingleIdle /\ CsvIdle /\ ReduceIdle /\ PagesIdle /\ RateIdle /\ LayoutIdle /\ UploadIdle /\ ReportIdle
NextValid == Validate
SpecValid == InitValid /\ [][NextValid]_vars

InitChunks == ChunkInit /\ MergeIdle /\ HeurIdle /\ ValidIdle /\ FileIdle /\ DocIdle /\ SingleIdle /\ CsvIdle /\ ReduceIdle /\ PagesIdle /\ RateIdle /\ LayoutIdle /\ UploadIdle /\ ReportIdle
NextChunks ==
    \/ SplitPages
    \/ CreateChunkPromises
    \/ \E i \in 1..Len(chunkState) : SendRequest(i)
    \/ \E i \in 1..Len(chunkState) : ChunkReturns(i)
    \/ \E i \in 1..Len(chunkState) : ChunkThrows(i)
    \/ BatchResolves
    \/ BatchRejects
    \/ ChunksDone
SpecChunks == InitChunks /\ [][NextChunks]_vars

InitFiles == FileInit /\ MergeIdle /\ HeurIdle /\ ValidIdle /\ ChunkIdle /\ DocIdle /\ SingleIdle /\ CsvIdle /\ ReduceIdle /\ PagesIdle /\ RateIdle /\ LayoutIdle /\ UploadIdle /\ ReportIdle
NextFiles ==
    \/ StartFileBatch
    \/ \E j \in 1..Len(fileOutcome) : FileSucceeds(j)
    \/ \E j \in 1..Len(fileOutcome) : FileFails(j)
    \/ BatchSettles
    \/ ThrowError
    \/ SetSummary
    \/ Finally
SpecFiles == InitFiles /\ [][NextFiles]_vars

InitDoc == DocInit /\ MergeIdle /\ HeurIdle /\ ValidIdle /\ ChunkIdle /\ FileIdle /\ SingleIdle /\ CsvIdle /\ ReduceIdle /\ PagesIdle /\ RateIdle /\ LayoutIdle /\ UploadIdle /\ ReportIdle
NextDoc ==
    \/ CollectChunkResults
    \/ FoldChunk
    \/ ApplyHeuristic
SpecDoc == InitDoc /\ [][NextDoc]_vars

InitSingle ==
    SingleInit /\ MergeIdle /\ HeurIdle /\ ValidIdle /\ ChunkIdle /\ FileIdle
        /\ DocIdle /\ CsvIdle /\ ReduceIdle /\ PagesIdle /\ RateIdle /\ LayoutIdle /\ UploadIdle /\ ReportIdle
NextSingle ==
    \/ SingleParseFails
    \/ SingleValidate
    \/ SingleThrowsNoneCorrect
    \/ SingleReturns
SpecSingle == InitSingle /\ [][NextSingle]_vars

InitCsv ==
    CsvInit /\ MergeIdle /\ HeurIdle /\ ValidIdle /\ ChunkIdle /\ FileIdle /\ DocIdle
        /\ SingleIdle /\ ReduceIdle /\ PagesIdle /\ RateIdle /\ LayoutIdle /\ UploadIdle /\ ReportIdle
NextCsv ==
    \/ CsvNoLines
    \/ CsvDetectHeader
    \/ CsvRowStep
    \/ CsvReturn
SpecCsv == InitCsv /\ [][NextCsv]_vars

InitReduce == ReduceInit /\ MergeIdle /\ HeurIdle /\ ValidIdle /\ ChunkIdle /\ FileIdle /\ DocIdle /\ SingleIdle /\ CsvIdle /\ PagesIdle /\ RateIdle /\ LayoutIdle /\ UploadIdle /\ ReportIdle
NextReduce ==
    FoldPasses
SpecReduce == InitReduce /\ [][NextReduce]_vars

InitPages == PagesInit /\ MergeIdle /\ HeurIdle /\ ValidIdle /\ ChunkIdle /\ FileIdle /\ SingleIdle /\ CsvIdle /\ ReduceIdle /\ RateIdle /\ LayoutIdle /\ UploadIdle /\ ReportIdle
NextPages ==
    \/ JoinPages
    \/ CollectChunkResults
    \/ FoldChunk
    \/ ApplyHeuristic
SpecPages == InitPages /\ [][NextPages]_vars

InitRate == RateInit /\ MergeIdle /\ HeurIdle /\ ValidIdle /\ ChunkIdle /\ FileIdle /\ DocIdle /\ SingleIdle /\ CsvIdle /\ ReduceIdle /\ PagesIdle /\ LayoutIdle /\ UploadIdle /\ ReportIdle
NextRate ==
    \/ \E ip \in Clients : FirstRequest(ip)
    \/ \E ip \in Clients : RequestAfterWindow(ip)
    \/ \E ip \in Clients : RequestRejected(ip)
    \/ \E ip \in Clients : RequestCounted(ip)
    \/ Tick
SpecRate == InitRate /\ [][NextRate]_vars

InitLayout == LayoutInit /\ MergeIdle /\ HeurIdle /\ ValidIdle /\ ChunkIdle /\ FileIdle /\ DocIdle /\ SingleIdle /\ CsvIdle /\ ReduceIdle /\ PagesIdle /\ RateIdle /\ UploadIdle /\ ReportIdle
NextLayout ==
    \/ PlaceItem
    \/ RenderPage
SpecLayout == InitLayout /\ [][NextLayout]_vars

InitUpload == UploadInit /\ MergeIdle /\ HeurIdle /\ ValidIdle /\ ChunkIdle /\ FileIdle /\ DocIdle /\ SingleIdle /\ CsvIdle /\ ReduceIdle /\ PagesIdle /\ RateIdle /\ LayoutIdle /\ ReportIdle
NextUpload ==
    \/ handleFileChange
    \/ handleDrop
    \/ handleDragEnter
    \/ handleDragLeave
    \/ removeFile
    \/ clearAllFiles
SpecUpload == InitUpload /\ [][NextUpload]_vars

InitReport == ReportInit /\ MergeIdle /\ HeurIdle /\ ValidIdle /\ ChunkIdle /\ FileIdle /\ DocIdle /\ SingleIdle /\ CsvIdle /\ ReduceIdle /\ PagesIdle /\ RateIdle /\ LayoutIdle /\ UploadIdle
NextReport ==
    \/ FilterEntries
    \/ DailyTotals
    \/ MonthlySummaries
    \/ SetReport
SpecReport == InitReport /\ [][NextReport]_vars

(***************************************************************************)
(* Reconciliation: the key of an entry as the specification defines it,    *)
(* the date and the amount rounded to two decimals, as a number (the       *)
(* rounded amounts -0.00 and 0.00 are the same number).                    *)
(***************************************************************************)
RoundedAmount(x) ==
    IF x.k = "inf" THEN [inf |-> TRUE, cents |-> IF x.neg THEN -1 ELSE 1]
    ELSE [inf |-> FALSE,
          cents |-> IF x.neg THEN 0 - ((x.mag + 5) \div 10) ELSE (x.mag + 5) \div 10]
RoundedKey(e) == <<e.date, RoundedAmount(e.amount)>>
CountOf(arr, k) == Cardinality({i \in 1..Len(arr) : RoundedKey(arr[i]) = k})
KeysOf(arr) == {RoundedKey(arr[i]) : i \in 1..Len(arr)}

\* C1: for every key k = (date, amount rounded to 2 decimals) the merge of a
\* and b holds exactly max(count_k(a), count_k(b)) entries with key k, and
\* no entry whose key occurs in neither a nor b.
C1_MergeHoldsMaxCountPerKey ==
    mPc = "done" =>
        /\ \A k \in KeysOf(a) \cup KeysOf(b) :
              CountOf(result, k) = Max(CountOf(a, k), CountOf(b, k))
        /\ KeysOf(result) \subseteq KeysOf(a) \cup KeysOf(b)

\* the batch of MAX_CONCURRENT_CHUNKS chunks that chunk i belongs to
BatchOfChunk(i) == (i - 1) \div MAX_CONCURRENT_CHUNKS
CallStarted(i) == chunkState[i] # "none"
CallCompleted(i) == chunkState[i] \in {"done", "failed"}

\* C2: at every moment at most 3 chunk extraction calls to the AI service
\* are in flight, and no extraction call of batch k+1 is started before
\* every call of batch k has completed.
C2_AtMostThreeCallsInFlight ==
    /\ Cardinality(InFlight) <= 3
    /\ \A i, j \in 1..Len(chunkState) :
          (BatchOfChunk(j) = BatchOfChunk(i) + 1 /\ CallStarted(j))
              => CallCompleted(i)

\* the files whose processing raises, and the first of them
Raising == {j \in 1..Len(fileOutcome) : fileOutcome[j] = "throw"}
FirstRaising == CHOOSE j \in Raising : \A k \in Raising : j <= k
\* the last file of the batch of MAX_CONCURRENT_FILES files that holds file j
BatchEndOfFile(j) == (((j - 1) \div MAX_CONCURRENT_FILES) + 1) * MAX_CONCURRENT_FILES

\* C3: if any file's processing raises, no batch after the failing batch is
\* started, the run ends in the error of the first failing file in
\* submission order, and no summary is produced.
C3_MultiFileFailFast ==
    Raising # {} =>
        /\ \A j \in 1..Len(fileOutcome) :
              j > BatchEndOfFile(FirstRaising) => fileState[j] = "none"
        /\ fPc \in {"caught", "failed"} => error = FirstRaising
        /\ fPc \notin {"summary", "done"}
        /\ summary = NoSummary
        /\ hasError => errorMessage = FirstRaising

\* C3 witness: of four files the second and the third raise; the run has
\* ended in the error of the second, and the fourth was never started
C3_Witness ==
    /\ fileOutcome = <<"ok", "throw", "throw", "ok">>
    /\ fPc = "failed"
    /\ error = 2
    /\ fileState[1] = "ok"
    /\ fileState[4] = "none"

\* the passes of a paginated document: every chunk's validated pass and the
\* heuristic pass over the raw text
Passes ==
    {docChunkResults[i] : i \in 1..Len(docChunkResults)}
        \cup {heuristicEntriesOf(rawTextForFallback)}
MaxCountIn(P, k) ==
    CHOOSE n \in {CountOf(pass, k) : pass \in P} :
        \A pass \in P : CountOf(pass, k) <= n

\* C4: the list returned for a paginated document holds, for every
\* (date, amount) key, exactly the maximum of the counts the key has in the
\* individual passes.
C4_ReturnedHoldsMaxOverPasses ==
    dPc = "done" =>
        \A k \in KeysOf(mergedEntries) \cup UNION {KeysOf(pass) : pass \in Passes} :
            CountOf(mergedEntries, k) = MaxCountIn(Passes, k)

\* C5: every entry returned has a date matching ^\d{4}-\d{2}-\d{2}$ and a
\* strictly positive amount.
C5_ReturnedEntriesIsoAndPositive ==
    dPc = "done" =>
        \A i \in 1..Len(mergedEntries) :
            /\ testIsoDate(mergedEntries[i].date)
            /\ IsPositive(mergedEntries[i].amount)

(***************************************************************************)
(* Heuristic parser: what the lines of the model are, by reading them.     *)
(* The claims are stated against these tables, not against the pattern     *)
(* matching of the parser.                                                 *)
(***************************************************************************)
\* the lines the loop sees, as given in the text (blank lines are dropped)
GivenLines == SelectSeq(lines, LAMBDA L : L # LineBlank)

D14ThisYear == CurrentYear \o <<"-", "1", "0", "-", "1", "4">>

\* the date a line prints as a header, <<>> when it prints none
HeaderOf(L) ==
    CASE L = LineIso14 -> D14
      [] L = LineIso15 -> D15
      [] L = LineOct15Fare -> D15
      [] L = LineIso15Refund -> D15
      [] L = LineTue14 -> D14ThisYear
      [] OTHER -> <<>>

\* the lines that contain an exclusion keyword
KeywordLines ==
    {LineDailyCap, LineIso15Refund, LineAutoTopUp, LineTotal, LinePayment,
     LineCredit, LineAdjustment}

\* the first amount a line prints, in thousandths (0 when it prints none)
FareOf(L) ==
    CASE L = LineFare280 -> 2800
      [] L = LineFare170 -> 1700
      [] L = LineBusFare -> 1700
      [] L = LineOct15Fare -> 1700
      [] L = LineDailyCap -> 8000
      [] L = LineIso15Refund -> 2800
      [] L = LineAutoTopUp -> 20000
      [] L = LineTotal -> 4500
      [] L = LinePayment -> 9990
      [] L = LineCredit -> 1000
      [] L = LineAdjustment -> 2000
      [] OTHER -> 0

\* the entries out holds that line i emitted
EntriesOfLine(i) == {k \in 1..Len(out) : outLine[k] = i}

\* the header lines among the first i lines
HeadersUpTo(i) == {j \in 1..i : HeaderOf(GivenLines[j]) # <<>>}

Greatest(S) == CHOOSE i \in S : \A j \in S : i >= j

\* C6 as stated: a line on which a date header is recognised never itself
\* yields a journey entry, even when it also contains an amount.
C6_HeaderLineNeverYieldsEntry ==
    \A k \in 1..Len(out) : HeaderOf(GivenLines[outLine[k]]) = <<>>

\* C6 as amended: a line on which a date header is recognised sets
\* currentDate to that date, and the loop goes on with the same line: unless
\* the line contains an exclusion keyword, an amount > 0 on it yields one
\* entry, dated with the line's own header; otherwise it yields none.
C6_HeaderLineYieldsOwnDatedEntry ==
    /\ \A i \in 1..lineIdx :
          LET L == GivenLines[i]
          IN  HeaderOf(L) # <<>> =>
                IF L \notin KeywordLines /\ FareOf(L) > 0
                THEN /\ Cardinality(EntriesOfLine(i)) = 1
                     /\ \A k \in EntriesOfLine(i) :
                           out[k] = TravelEntry(HeaderOf(L), Num(FALSE, FareOf(L)))
                ELSE EntriesOfLine(i) = {}
    /\ (lineIdx >= 1 /\ HeaderOf(GivenLines[lineIdx]) # <<>>)
          => currentDate = HeaderOf(GivenLines[lineIdx])

\* C6 witness: a line with a date header and an amount has emitted an entry
C6_Witness ==
    \E k \in 1..Len(out) :
        /\ GivenLines[outLine[k]] = LineOct15Fare
        /\ out[k].date = D15

ExampleEntries ==
    <<TravelEntry(D14, Num(FALSE, 2800)), TravelEntry(D14, Num(FALSE, 1700)),
      TravelEntry(D15, Num(FALSE, 2800))>>

\* C7 as stated: every entry carries the date of the most recently seen
\* date header above its line, entries are in line order, and the example
\* text yields exactly the three entries dated 14, 14, 15.
C7_EntryCarriesHeaderAbove ==
    /\ \A k \in 1..Len(out) :
          LET J == HeadersUpTo(outLine[k] - 1)
          IN  J # {} /\ out[k].date = HeaderOf(GivenLines[Greatest(J)])
    /\ \A k \in 1..(Len(out) - 1) : outLine[k] < outLine[k + 1]
    /\ (lines = ExampleText /\ lineIdx = Len(ExampleText)) => out = ExampleEntries

\* C7 as amended: every entry carries the date of the most recently seen
\* date header on or above its line (the header of its own line when that
\* line has one), entries are in line order, and the example text yields
\* exactly the three entries dated 14, 14, 15.
C7_EntryCarriesLatestHeader ==
    /\ \A k \in 1..Len(out) :
          LET J == HeadersUpTo(outLine[k])
          IN  J # {} /\ out[k].date = HeaderOf(GivenLines[Greatest(J)])
    /\ \A k \in 1..(Len(out) - 1) : outLine[k] < outLine[k + 1]
    /\ (lines = ExampleText /\ lineIdx = Len(ExampleText)) => out = ExampleEntries

\* C7 witness: the example text has been parsed to its end
C7_Witness ==
    /\ lines = ExampleText
    /\ lineIdx = Len(ExampleText)
    /\ Len(out) = 3

\* each keyword line of the model, under an active date, yields nothing
KeywordLinesYieldNothing ==
    \A L \in KeywordLines :
        /\ FareOf(L) > 0
        /\ parseJourneysHeuristically(<<LineIso14, L>>) = <<>>
        /\ parseJourneysHeuristically(<<L>>) = <<>>

\* C8: a line containing an exclusion keyword (cap, total, payment, auto top
\* up, refund, credit, adjustment; any case) never yields an entry, whatever
\* the current date and whether or not it contains a valid amount.
C8_ExclusionWins ==
    /\ \A k \in 1..Len(out) : GivenLines[outLine[k]] \notin KeywordLines
    /\ KeywordLinesYieldNothing

\* C8 witness: "Daily cap (pound)8.00" was read under an active date and out
\* is empty
C8_Witness ==
    /\ lineIdx = 2
    /\ GivenLines[1] = LineIso14
    /\ GivenLines[2] = LineDailyCap
    /\ currentDate = D14
    /\ out = <<>>

\* C9: no entry is emitted for an amount line before the first date header:
\* while currentDate is unset, out stays empty.
C9_NoEntryBeforeFirstHeader ==
    /\ HeadersUpTo(lineIdx) = {} => out = <<>>
    /\ currentDate = <<>> => out = <<>>
    /\ \A k \in 1..Len(out) : out[k].date # <<>>

\* C9 witness: an amount line was read before any header and emitted nothing
C9_Witness ==
    /\ lineIdx >= 1
    /\ GivenLines[1] = LineFare280
    /\ currentDate = <<>>
    /\ out = <<>>

\* what the specification keeps of expenses: a string date that is an ISO
\* date (of the dates of the model, "2025-10-14" and "2025-10-15" are) and a
\* finite numeric amount
KeptBySpecification(item) ==
    /\ item.obj
    /\ item.date.t = "string"
    /\ item.date.s \in {D14, D15}
    /\ item.amount.t = "number"
    /\ IsFinite(item.amount.n)
EntriesOfItems(its) ==
    [i \in 1..Len(its) |-> TravelEntry(its[i].date.s, its[i].amount.n)]

\* C10: the validated pass is exactly the subsequence of the elements of
\* expenses that have a string date matching ^\d{4}-\d{2}-\d{2}$ and a
\* finite numeric amount, unaltered.
C10_ValidatedIsTheFiniteSubsequence ==
    vPc = "done" =>
        validEntries = EntriesOfItems(SelectSeq(expenses, KeptBySpecification))

(***************************************************************************)
(* Single-document path: what the raw texts of the model hold, by reading  *)
(* them.                                                                   *)
(***************************************************************************)
\* the journeys a raw text prints under a date header
JourneysPrinted(text) ==
    CASE text = <<LineIso14, LineFare280, LineFare280>> ->
             <<TravelEntry(D14, Num(FALSE, 2800)), TravelEntry(D14, Num(FALSE, 2800))>>
      [] text = <<LineIso15, LineFare170>> -> <<TravelEntry(D15, Num(FALSE, 1700))>>
      [] OTHER -> <<>>

\* the expenses array was non-empty and every element failed validation
AllElementsDropped ==
    /\ sPc = "done"
    /\ sResponse.kind = "ok"
    /\ Len(sResponse.expenses) > 0
    /\ sValid = <<>>

\* C11 as stated: for a single-document call, whenever the expenses array is
\* non-empty and every element fails validation, the call raises the "none
\* in correct format" error instead of returning entries.
C11_AllDroppedAlwaysRaises ==
    AllElementsDropped => sOutcome = "none in correct format"

\* C11 as amended: ... the call raises the "none in correct format" error
\* when the heuristic pass over the raw text yields no entry either (always,
\* for an image); when the heuristic pass yields entries, the call returns
\* those entries and raises nothing.
C11_AllDroppedRaisesUnlessHeuristicRecovers ==
    AllElementsDropped =>
        IF JourneysPrinted(sRawText) = <<>>
        THEN sOutcome = "none in correct format"
        ELSE sOutcome = "returned" /\ sFinal = JourneysPrinted(sRawText)

\* C11 witness: the only element of expenses has a D-M-Y date and was
\* dropped; the raw text prints a journey, which the call returned
C11_Witness ==
    /\ AllElementsDropped
    /\ sResponse = Expenses(<<ItemDmy>>)
    /\ sRawText = <<LineIso15, LineFare170>>
    /\ sOutcome = "returned"
    /\ Len(sFinal) = 1

\* C13: a single-document response that is not parseable JSON, or is JSON
\* without an expenses array, always ends in a reportable error and never in
\* a returned entry list, whatever the heuristic parser could recover.
C13_UnusableResponseIsAnError ==
    /\ sResponse.kind \in {"badjson", "noexpenses"} =>
          /\ sOutcome # "returned"
          /\ sFinal = <<>>
          /\ sPc \in {"response", "done"}
    /\ (sPc = "done" /\ sResponse.kind = "badjson") => sOutcome = "unexpected format"
    /\ (sPc = "done" /\ sResponse.kind = "noexpenses") =>
          sOutcome = "no valid expense data"

\* C13 witness: the response was not JSON, the raw text prints two journeys,
\* and the call ended in the error
C13_Witness ==
    /\ sPc = "done"
    /\ sResponse = BadJson
    /\ JourneysPrinted(sRawText) # <<>>
    /\ sOutcome = "unexpected format"

\* the chunks whose response is not JSON or has no expenses array
FailedChunks ==
    {i \in 1..Len(responses) : responses[i].kind \in {"badjson", "noexpenses"}}
\* the merge of the passes of the other chunks, in chunk order; a pass
\* without entries adds nothing to a merge
MergeOfOtherChunks ==
    LET F[i \in 0..Len(docChunkResults)] ==
            IF i = 0 THEN <<>>
            ELSE IF i \in FailedChunks \/ docChunkResults[i] = <<>> THEN F[i - 1]
            ELSE mergeEntriesByMaxCount(F[i - 1], docChunkResults[i])
    IN  F[Len(docChunkResults)]
WithHeuristicPass(merged, heuristic) ==
    IF heuristic = <<>> THEN merged ELSE mergeEntriesByMaxCount(merged, heuristic)

\* C12: a chunk whose response fails JSON parsing or lacks an expenses array
\* contributes an empty pass and the extraction does not abort: the result
\* is the merge of the other chunks' passes and the heuristic pass.
C12_FailedChunkIsAnEmptyPass ==
    /\ dPc \in {"chunks", "fold", "done"}
    /\ dPc # "chunks" => \A i \in FailedChunks : docChunkResults[i] = <<>>
    /\ (dPc = "done" /\ FailedChunks # {}) =>
          mergedEntries =
              WithHeuristicPass(MergeOfOtherChunks, JourneysPrinted(rawTextForFallback))

\* C12 witness: the first of two chunks was not JSON; the result holds the
\* journey of the second chunk and the two of the text, merged
C12_Witness ==
    /\ dPc = "done"
    /\ responses = <<BadJson, Expenses(<<Item170On15, ItemDmy>>)>>
    /\ JourneysPrinted(rawTextForFallback) # <<>>
    /\ Len(mergedEntries) = 3

\* the sizes of the chunks, in chunk order
ChunkSizes == [c \in 1..Len(chunks) |-> Len(chunks[c])]
\* the pages per chunk the specification gives for n pages
StatedPagesPerChunk(n) ==
    CASE n <= 4 -> n
      [] n >= 5 /\ n <= 8 -> 2
      [] n > 8 -> 4

PagesOfChunks ==
    LET F[c \in 0..Len(chunks)] ==
            IF c = 0 THEN <<>> ELSE F[c - 1] \o chunks[c]
    IN  F[Len(chunks)]

\* C15: the chunks form an ordered partition of the page sequence: each is a
\* non-empty contiguous page range, they are pairwise disjoint, and their
\* concatenation in index order is the page sequence.
C15_ChunksPartitionThePages ==
    cPc \notin {"idle", "split"} =>
        /\ \A c \in 1..Len(chunks) :
              /\ Len(chunks[c]) >= 1
              /\ \A k \in 1..(Len(chunks[c]) - 1) : chunks[c][k + 1] = chunks[c][k] + 1
        /\ \A c, d \in 1..Len(chunks) :
              c # d => {chunks[c][k] : k \in 1..Len(chunks[c])}
                           \cap {chunks[d][k] : k \in 1..Len(chunks[d])} = {}
        /\ PagesOfChunks = [i \in 1..numPages |-> i]

\* C15 witness: seven pages have been split into four chunks, the last of
\* one page
C15_Witness ==
    /\ numPages = 7
    /\ cPc = "map"
    /\ Len(chunks) = 4
    /\ chunks[4] = <<7>>

\* ---------------------------------------------------------------------------
\* C16: in a batch of chunk extraction calls a failure of one call does not
\* end the batch early: when the error is surfaced, every call of the batch
\* that was being awaited has completed (returned or thrown).
SiblingsOfAwaitedBatch == chunkBatch(batchStart, Len(chunkState))

C16_ErrorSurfacesAfterSiblingsComplete ==
    cPc = "error" => \A i \in SiblingsOfAwaitedBatch : CallCompleted(i)

\* ---------------------------------------------------------------------------
\* C17: in a multi-file run at most 3 file extraction tasks are in progress at
\* any moment, and no file of a later batch is started before every file of
\* the batches before it has completed.
FilesInProgress == {j \in 1..Len(fileState) : fileState[j] = "running"}
FileStarted(j) == fileState[j] # "none"
FileCompleted(j) == fileState[j] \in {"ok", "failed"}
BatchNumberOfFile(j) == (j - 1) \div 3

C17_AtMostThreeFilesAndBatchesInTurn ==
    /\ Cardinality(FilesInProgress) <= 3
    /\ \A j, k \in 1..Len(fileState) :
          (BatchNumberOfFile(j) < BatchNumberOfFile(k) /\ FileStarted(k))
             => FileCompleted(j)

\* four files: the fourth is in progress, after the three of the first batch
C17_Witness ==
    /\ Len(fileState) = 4
    /\ fileState[4] = "running"
    /\ \A j \in 1..3 : fileState[j] = "ok"

\* ---------------------------------------------------------------------------
\* C18: the chunk results are collected, and so merged, in the order in which
\* the chunks were submitted, whatever the order in which the calls complete;
\* the "Processing chunk i of n" messages are emitted for i = 1..n in that
\* order.
InSubmissionOrder(log) == \A k \in 1..Len(log) : log[k] = k

C18_ResultsAndMessagesInSubmissionOrder ==
    /\ InSubmissionOrder(chunkResults)
    /\ InSubmissionOrder(progressLog)
    /\ cPc \in {"await", "merge", "error"} => Len(progressLog) = Len(chunks)
    /\ cPc = "merge" => Len(chunkResults) = Len(chunks)

\* three chunks whose calls completed in the order 3, 1, 2, all collected
C18_Witness ==
    /\ cPc = "merge"
    /\ completionLog = <<3, 1, 2>>
    /\ chunkResults = <<1, 2, 3>>
    /\ progressLog = <<1, 2, 3>>

\* ---------------------------------------------------------------------------
\* The CSV rows, labelled by hand from their text.
GivenRows == SelectSeq(csvText, LAMBDA r : r # RowBlank)
RowOfEntry(k) == GivenRows[csvOutRow[k] + 1]

\* the amount of the rightmost column after the first that ends in an amount
StatedAmountOf(r) ==
    CASE r = RowHeader    -> {}
      [] r = RowDateFare  -> {}
      [] r = RowDmy280    -> {Num(FALSE, 2800)}
      [] r = RowIso170    -> {Num(FALSE, 1700)}
      [] r = RowNoAmount  -> {}
      [] r = RowThreeCols -> {Num(FALSE, 2800)}
      [] r = RowShortYear -> {Num(FALSE, 2800)}
      [] r = RowDayTotal  -> {Num(FALSE, 7700)}

\* C19: the amount of an entry is the amount of the rightmost matching
\* column among the columns after the first of its row; a row none of whose
\* later columns matches gives no entry, the date column is never the amount.
C19_AmountFromColumnsAfterTheDate ==
    \A k \in 1..Len(csvOut) : csvOut[k].amount \in StatedAmountOf(RowOfEntry(k))

\* ---------------------------------------------------------------------------
\* the rows holding a date-like and an amount-like keyword
RowsWithBothKeywords == {RowHeader, RowDayTotal}

\* the ISO date of the rows whose first column is a date with a year of two
\* or four digits
StatedDateOf(r) ==
    CASE r = RowDmy280    -> {D14}
      [] r = RowIso170    -> {D15}
      [] r = RowNoAmount  -> {D14}
      [] r = RowThreeCols -> {D15}
      [] r = RowDayTotal  -> {D14}
      [] OTHER            -> {}

\* the rows with a date in the first column and an amount in a later one
DataRows == {RowDmy280, RowIso170, RowThreeCols, RowDayTotal}

IsIsoDate(d) ==
    /\ Len(d) = 10
    /\ \A i \in {1, 2, 3, 4, 6, 7, 9, 10} : d[i] \in Digits
    /\ d[5] = "-" /\ d[8] = "-"

RowSkippedAsHeader == GivenRows # <<>> /\ GivenRows[1] \in RowsWithBothKeywords
EntriesOfRow(i) == {k \in 1..Len(csvOut) : csvOutRow[k] = i}
RowsPassed ==
    {i \in 0..(Len(GivenRows) - 1) :
        (csvPc = "rows" /\ i < csvRow) \/ csvPc = "done"}

CsvExample == <<RowHeader, RowDmy280, RowIso170>>

\* C20: a first row with a date-like and an amount-like keyword is skipped
\* and gives no entry; otherwise row 0 is parsed as a data row.  The other
\* rows give one entry each, in row order, with dates normalised to ISO; the
\* example text gives {2025-10-14, 2.80}, {2025-10-15, 1.70}.
C20_HeaderSkippedRowsInOrderIsoDates ==
    /\ RowSkippedAsHeader => EntriesOfRow(0) = {}
    /\ \A i \in RowsPassed :
          (GivenRows[i + 1] \in DataRows /\ ~(i = 0 /\ RowSkippedAsHeader))
             => Cardinality(EntriesOfRow(i)) = 1
    /\ \A k \in 1..Len(csvOut) :
          /\ k > 1 => csvOutRow[k - 1] < csvOutRow[k]
          /\ IsIsoDate(csvOut[k].date)
          /\ StatedDateOf(RowOfEntry(k)) # {}
                => csvOut[k].date \in StatedDateOf(RowOfEntry(k))
    /\ (csvText = CsvExample /\ csvPc = "done")
          => csvOut = <<TravelEntry(D14, Num(FALSE, 2800)),
                        TravelEntry(D15, Num(FALSE, 1700))>>

\* ---------------------------------------------------------------------------
\* the rows whose first column is no date, or that hold no amount
MalformedRows == {RowHeader, RowDateFare, RowNoAmount}

\* the entry of a data row, from its text alone
StatedEntryOf(r) ==
    CASE r = RowDmy280    -> TravelEntry(D14, Num(FALSE, 2800))
      [] r = RowIso170    -> TravelEntry(D15, Num(FALSE, 1700))
      [] r = RowThreeCols -> TravelEntry(D15, Num(FALSE, 2800))
      [] r = RowDayTotal  -> TravelEntry(D14, Num(FALSE, 7700))

\* C21: the CSV parser never raises; a row whose first column is not a date
\* or that has no amount is skipped, and the entries of the other rows are
\* the ones their own text gives, whatever rows are skipped around them.
C21_MalformedRowsSkippedWithoutEffect ==
    /\ csvPc \in {"start", "rows", "done"}
    /\ \A i \in RowsPassed :
          /\ GivenRows[i + 1] \in MalformedRows => EntriesOfRow(i) = {}
          /\ (GivenRows[i + 1] \in DataRows /\ ~(i = 0 /\ RowSkippedAsHeader))
                => \E k \in 1..Len(csvOut) :
                      /\ EntriesOfRow(i) = {k}
                      /\ csvOut[k] = StatedEntryOf(GivenRows[i + 1])

\* ---------------------------------------------------------------------------
\* two arrays are the same multiset of entries: every key (date, amount
\* rounded to two decimals) has the same count in both
SameMultiset(x, y) ==
    \A k \in KeysOf(x) \cup KeysOf(y) : CountOf(x, k) = CountOf(y, k)

Orderings == {p \in [1..3 -> 1..3] : \A i, j \in 1..3 : i # j => p[i] # p[j]}
LeftFirst(p) ==
    mergeEntriesByMaxCount(
        mergeEntriesByMaxCount(passList[p[1]], passList[p[2]]), passList[p[3]])
RightFirst(p) ==
    mergeEntriesByMaxCount(
        passList[p[1]], mergeEntriesByMaxCount(passList[p[2]], passList[p[3]]))

\* C22: the pairwise fold of the merge over a list of passes gives the same
\* multiset for every ordering and every grouping of the passes.
C22_FoldIsOrderAndGroupingIndependent ==
    rPc = "done" =>
        \A p \in Orderings :
            /\ SameMultiset(folded, LeftFirst(p))
            /\ SameMultiset(folded, RightFirst(p))

LinesOfPages ==
    LET F[i \in 0..Len(pageTexts)] ==
            IF i = 0 THEN <<>> ELSE F[i - 1] \o pageTexts[i]
    IN  F[Len(pageTexts)]
PageOfLines ==
    LET F[i \in 0..Len(pageTexts)] ==
            IF i = 0 THEN <<>>
            ELSE F[i - 1] \o [k \in 1..Len(pageTexts[i]) |-> i]
    IN  F[Len(pageTexts)]
\* the chunk of a page of a document of DocPages pages
ChunkOfPage(pg) == ((pg - 1) \div StatedPagesPerChunk(DocPages)) + 1
\* the header lines above line i, of any page
HeaderLinesAbove(i) == {j \in 1..(i - 1) : HeaderOf(LinesOfPages[j]) # <<>>}
\* the journey lines whose latest header is on a page of an earlier chunk
InheritingAcrossChunks ==
    {i \in 1..Len(LinesOfPages) :
        /\ FareOf(LinesOfPages[i]) # 0
        /\ HeaderOf(LinesOfPages[i]) = <<>>
        /\ LinesOfPages[i] \notin KeywordLines
        /\ HeaderLinesAbove(i) # {}
        /\ ChunkOfPage(PageOfLines[Greatest(HeaderLinesAbove(i))])
              < ChunkOfPage(PageOfLines[i])}

PassedOnBetween(ip, t1, t2) ==
    LET F[k \in 0..(MaxTicks + 1)] ==
            IF k = 0 THEN 0
            ELSE F[k - 1] +
                 (IF (k - 1) * TickMs >= t1 /\ (k - 1) * TickMs <= t2
                  THEN passedOn[ip][(k - 1) * TickMs] ELSE 0)
    IN  F[MaxTicks + 1]

\* C25: in any interval of 60 seconds at most 30 requests of one client
\* address are passed on to the handler; a request that is not passed on is
\* answered with 429.
C25_AtMostThirtyPerMinutePerAddress ==
    /\ \A ip \in Clients :
          \A t1, t2 \in Times :
              (t1 <= t2 /\ t2 - t1 <= 60000) => PassedOnBetween(ip, t1, t2) <= 30
    /\ answer \in {0, 200, 429}

(***************************************************************************)
(* C27: in rebuildPageTextWithLineBreaks any two tokens of a page whose    *)
(* vertical coordinates differ by at most 2 units end up on the same       *)
(* reconstructed line, whatever order the tokens are supplied in, and      *)
(* every token is placed on exactly one line.                              *)
(***************************************************************************)
\* the number of parts of the lines, and the lines that hold item i
PartsPlaced ==
    LET F[k \in 0..Len(pageLines)] ==
            IF k = 0 THEN 0 ELSE F[k - 1] + Len(pageLines[k].parts)
    IN  F[Len(pageLines)]
OnSameLine(i, j) == lineOfItem[i] = lineOfItem[j]
PlacedOnItsLine(i) ==
    /\ lineOfItem[i] \in 1..Len(pageLines)
    /\ \E p \in 1..Len(pageLines[lineOfItem[i]].parts) :
          pageLines[lineOfItem[i]].parts[p] =
              [x |-> items[i].x, str |-> items[i].str]
C27_TokensWithinTwoUnitsShareALine ==
    lPc = "done" =>
        /\ \A i, j \in 1..Len(items) :
              Abs(items[i].y - items[j].y) <= 2 => OnSameLine(i, j)
        /\ PartsPlaced = Len(items)
        /\ \A i \in 1..Len(items) : PlacedOnItsLine(i)
\* every token is on exactly one line; the grouping is left out
C27_EveryTokenOnOneLine ==
    lPc = "done" =>
        /\ PartsPlaced = Len(items)
        /\ \A i \in 1..Len(items) : PlacedOnItsLine(i)

(***************************************************************************)
(* C26: merging across the disjoint chunks of one document drops no entry: *)
(* when two different chunks each report an entry with the same (date,     *)
(* amount), the two being journeys on different pages as the chunks share  *)
(* no page, the final result retains both entries.                         *)
(***************************************************************************)
ChunksReporting(k) ==
    {i \in 1..Len(docChunkResults) : CountOf(docChunkResults[i], k) >= 1}
KeysOfChunks == UNION {KeysOf(docChunkResults[i]) : i \in 1..Len(docChunkResults)}
C26_EntriesOfDifferentChunksAllRetained ==
    dPc = "done" =>
        \A k \in KeysOfChunks :
            Cardinality(ChunksReporting(k)) >= 2 => CountOf(mergedEntries, k) >= 2

(***************************************************************************)
(* C28: the selected-file list of the upload component never holds more    *)
(* than 3 files after any sequence of picker adds, drops, removals and     *)
(* clears: an add that would bring the total above 3 leaves the list       *)
(* unchanged, sets the limit error and does not call onFilesSelected.      *)
(***************************************************************************)
\* the step is an add (by the picker or by a drop) of files that would bring
\* the total above 3
AddAboveThree ==
    /\ uploadSteps' = uploadSteps + 1
    /\ uploadEvent'.type \in {"change", "drop"}
    /\ Len(selectedFiles) + Len(uploadEvent'.files) > 3
AddAboveThreeChangesNothing ==
    AddAboveThree =>
        /\ selectedFiles' = selectedFiles
        /\ fileLimitError' # "null"
        /\ onFilesSelectedCalls' = onFilesSelectedCalls
        /\ onFilesSelectedArg' = onFilesSelectedArg
C28_NeverMoreThanThreeFiles ==
    /\ [](Len(selectedFiles) <= 3)
    /\ [][AddAboveThreeChangesNothing]_vars
\* three files are listed and a fourth was offered by the picker and refused
C28_Witness ==
    /\ Len(selectedFiles) = 3
    /\ uploadEvent.type = "change"
    /\ Len(uploadEvent.files) >= 1
    /\ fileLimitError # "null"
    /\ onFilesSelectedCalls = 2
    /\ uploadSteps = 3

(***************************************************************************)
(* C29: during a multi-file run the reported progress percentage never     *)
(* decreases and never exceeds 100, whatever order the concurrently        *)
(* processed files of a batch complete in, and it equals 100 once all      *)
(* files have succeeded.  (progress is in units of 1/files.length percent: *)
(* 100 percent is 100 * Len(fileOutcome).)                                 *)
(***************************************************************************)
\* the run lasts until `finally` resets the loading state
RunGoesOn == fPc' \notin {"failed", "done"}
ProgressNeverDecreases == RunGoesOn => progress' >= progress
ProgressAtMostHundred == progress <= 100 * Len(fileOutcome)
HundredAfterAllSucceeded == fPc = "summary" => progress = 100 * Len(fileOutcome)
C29_ProgressMonotoneUpToHundred ==
    /\ [][ProgressNeverDecreases]_vars
    /\ [](fPc # "idle" => ProgressAtMostHundred)
    /\ [](HundredAfterAllSucceeded)
\* the bound and the final value alone, without the monotonicity
C29_ProgressBoundedAndFinallyHundred ==
    /\ fPc # "idle" => ProgressAtMostHundred
    /\ HundredAfterAllSucceeded

(***************************************************************************)
(* C30: the report counts exactly the extracted entries whose date is one  *)
(* of the selected workdays, and the grand total equals the sum of the     *)
(* daily totals and equals the sum of the monthly totals.  (That no        *)
(* extraction function filters by workday shows in the model as the        *)
(* extraction operators taking no workday.)                                *)
(***************************************************************************)
\* the selected workdays as the dates the statements print
StatedWorkday(d) ==
    CASE d = Oct14 -> D14
      [] d = Oct15 -> D15
      [] d = Nov3 -> DNov3
OnSelectedWorkday(e) == \E d \in selectedDates : StatedWorkday(d) = e.date
\* the totals of a list added up in the order of the list
SumOfTotals(list) ==
    LET F[k \in 0..Len(list)] ==
            IF k = 0 THEN Num(FALSE, 0) ELSE plus(F[k - 1], list[k].total)
    IN  F[Len(list)]
ReportCountsSelectedWorkdays ==
    filteredEntries = SelectSeq(allTravelEntries, OnSelectedWorkday)
C30_ReportOfSelectedWorkdaysWithEqualTotals ==
    repPc = "done" =>
        /\ ReportCountsSelectedWorkdays
        /\ report.total = SumOfTotals(report.dailyTotals)
        /\ report.total = SumOfTotals(report.monthlySummaries)
\* the entries counted alone, without the totals
C30_CountsExactlySelectedWorkdays ==
    repPc = "done" => ReportCountsSelectedWorkdays

==============================================================================
